---------------------------- MODULE Spec2Model ----------------------------
(***************************************************************************)
(* Model of the soul0 core: the Facelock engine (core/facelock.rs), the    *)
(* conversation window (types/turn.rs) and the proof generator / verifier  *)
(* (core/proof.rs, types/proof.rs).                                        *)
(*                                                                         *)
(* Units and encodings                                                     *)
(*   - Instants and durations are integer milliseconds.                    *)
(*   - An f64 scalar is <<h>>, h the value in hundredths (0.15 is <<15>>), *)
(*     or NaN == <<>>.  Every comparison with NaN is false, as in IEEE.    *)
(*   - Option<T>: None == <<>>, Some(x) == <<x>>.                          *)
(*   - A String is the sequence of its bytes (numbers 0..255).             *)
(*   - A byte of a [u8; N] array or of a serialization is a cell: <<n>>    *)
(*     for the concrete byte n; the cells of a SHA-256 digest are symbolic *)
(*     (see sha256), so that the digest is injective in its input.         *)
(*   - A u16/u32/u64/i64 is the sequence of its big-endian base-256        *)
(*     digits, so that every bit pattern a decoder can meet is a value.    *)
(***************************************************************************)
EXTENDS Integers, Sequences, FiniteSets, TLC

VARIABLES
    now,        \* the monotonic clock read by Instant::now()
    engine,     \* the FacelockEngine object (its seven fields)
    output,     \* the StateOutput returned by the last update
    prev_state, \* engine.state as it was when the last update was called
    bell,       \* TRUE iff the last update printed the terminal bell
    run_start,  \* Some(instant of the first update of the current run of
                \* consecutive updates with r < 0.15), None outside a run
    history,    \* what the updates so far were: the instant of the last one
                \* with r >= 0.15, the instant Locked was last lost, whether
                \* a NaN was among the scalars, and the state in which the
                \* scalars settled below 0.15 for good (calm)
    window,     \* the ConversationWindow of the session
    call,       \* the last call of can_generate or generate: its arguments
                \* and what it returned
    tamper,     \* the tamper experiment on the proof call holds: the byte
                \* changed, the change, and what verify_proof then returned
    held,       \* a Turn the caller has created and not yet added (Option)
    added,      \* the last add_turn: the turn, the instant of the call and
                \* the turns the window held before it; the number of calls
    codec,      \* the last encode/decode call: its argument and its results
    hashing,    \* the last comparison of two content hashes: the two inputs
                \* and the two digests
    session,    \* what a call site keeps next to the engine and the window:
                \* the stored proof or the proof_generated flag
    requests,   \* the HTTP requests in flight: each one's handler, position
                \* and what it has read
    lock        \* the RwLock around the sessions map: its writer and readers

engine_vars == <<now, engine, output, prev_state, bell, run_start, history>>

proof_vars == <<window, call, tamper>>

caller_vars == <<held, added, codec>>

site_vars == <<hashing, session, requests, lock>>

vars == <<now, engine, output, prev_state, bell, run_start, history,
          window, call, tamper, held, added, codec,
          hashing, session, requests, lock>>

---------------------------------------------------------------------------
(* Bounds of the exploration                                               *)

MaxClock == 16000
MaxUpdates == 6

---------------------------------------------------------------------------
(* Program constants, src/src/lib.rs (f64 thresholds in hundredths)        *)

R_THRESHOLD_LOCKED == 15
R_THRESHOLD_APPROACHING == 25
R_THRESHOLD_DRIFT == 30
STABILITY_DURATION_MS == 8000

---------------------------------------------------------------------------
(* Option and f64                                                          *)

None == <<>>
Some(x) == <<x>>
is_none(o) == o = <<>>
is_some(o) == o # <<>>
unwrap(o) == o[1]

NaN == <<>>
F(h) == <<h>>
is_nan(a) == a = <<>>
f64_lt(a, b) == Len(a) = 1 /\ Len(b) = 1 /\ a[1] < b[1]
f64_ge(a, b) == Len(a) = 1 /\ Len(b) = 1 /\ a[1] >= b[1]

\* The scalars submitted to update: both sides of every threshold, and NaN.
RValues == {F(14), F(15), F(24), F(25), F(29), F(30), NaN}

\* How far the clock may move between two reads.
TickSteps == {3999, 4000}

---------------------------------------------------------------------------
(* FacelockEngine, src/src/core/facelock.rs                                *)

FacelockState == {"Waiting", "Approaching", "Locked", "Drift"}

FacelockEngine_new(t) ==
    [ state                |-> "Waiting",
      state_since          |-> t,
      last_r               |-> F(100),
      lock_candidate_since |-> None,
      first_input          |-> None,
      last_input           |-> t,
      update_count         |-> 0 ]

\* StateOutput::new (the wall-clock timestamp field is not modelled)
StateOutput_new(r, state, stable_ms, reason) ==
    [ r               |-> r,
      state           |-> state,
      stable_ms       |-> stable_ms,
      reason          |-> reason,
      proof_available |-> (state = "Locked") ]

\* The four arms of the match in compute_transition, each <<state, reason>>.
transition_from_waiting_ToLocked(r) ==
    IF f64_lt(r, F(R_THRESHOLD_LOCKED))
    THEN <<"Locked", "R005_TRANSITION_TO_LOCKED">>
    ELSE IF f64_lt(r, F(R_THRESHOLD_APPROACHING))
    THEN <<"Approaching", "R005_TRANSITION_TO_APPROACHING">>
    ELSE <<"Waiting", "R002_STATE_WAITING">>

transition_from_waiting(r) ==
    IF f64_lt(r, F(R_THRESHOLD_APPROACHING))
    THEN <<"Approaching", "R005_TRANSITION_TO_APPROACHING">>
    ELSE <<"Waiting", "R002_STATE_WAITING">>

transition_from_approaching_NoStability(r, stable_ms) ==
    IF f64_lt(r, F(R_THRESHOLD_LOCKED))
    THEN <<"Locked", "R005_TRANSITION_TO_LOCKED">>
    ELSE IF f64_ge(r, F(R_THRESHOLD_DRIFT))
    THEN <<"Drift", "R005_TRANSITION_TO_DRIFT">>
    ELSE <<"Approaching", "R002_STATE_APPROACHING">>

transition_from_approaching_StrictStability(r, stable_ms) ==
    IF f64_lt(r, F(R_THRESHOLD_LOCKED)) /\ stable_ms > STABILITY_DURATION_MS
    THEN <<"Locked", "R005_TRANSITION_TO_LOCKED">>
    ELSE IF f64_ge(r, F(R_THRESHOLD_DRIFT))
    THEN <<"Drift", "R005_TRANSITION_TO_DRIFT">>
    ELSE IF f64_lt(r, F(R_THRESHOLD_LOCKED))
    THEN <<"Approaching", "R003_STABILITY_ACCUMULATING">>
    ELSE <<"Approaching", "R002_STATE_APPROACHING">>

transition_from_approaching_StrictDrift(r, stable_ms) ==
    IF f64_lt(r, F(R_THRESHOLD_LOCKED)) /\ stable_ms >= STABILITY_DURATION_MS
    THEN <<"Locked", "R005_TRANSITION_TO_LOCKED">>
    ELSE IF f64_ge(r, F(R_THRESHOLD_DRIFT)) /\ r # F(R_THRESHOLD_DRIFT)
    THEN <<"Drift", "R005_TRANSITION_TO_DRIFT">>
    ELSE IF f64_lt(r, F(R_THRESHOLD_LOCKED))
    THEN <<"Approaching", "R003_STABILITY_ACCUMULATING">>
    ELSE <<"Approaching", "R002_STATE_APPROACHING">>

transition_from_approaching(r, stable_ms) ==
    IF f64_lt(r, F(R_THRESHOLD_LOCKED)) /\ stable_ms >= STABILITY_DURATION_MS
    THEN <<"Locked", "R005_TRANSITION_TO_LOCKED">>
    ELSE IF f64_ge(r, F(R_THRESHOLD_DRIFT))
    THEN <<"Drift", "R005_TRANSITION_TO_DRIFT">>
    ELSE IF f64_lt(r, F(R_THRESHOLD_LOCKED))
    THEN <<"Approaching", "R003_STABILITY_ACCUMULATING">>
    ELSE <<"Approaching", "R002_STATE_APPROACHING">>

\* A Locked that reports every update in which it holds as an entry.
transition_from_locked_Reported(r) ==
    IF f64_ge(r, F(R_THRESHOLD_LOCKED))
    THEN <<"Drift", "R005_TRANSITION_TO_DRIFT">>
    ELSE <<"Locked", "R005_TRANSITION_TO_LOCKED">>

transition_from_locked_DriftThreshold(r) ==
    IF f64_ge(r, F(R_THRESHOLD_DRIFT))
    THEN <<"Drift", "R005_TRANSITION_TO_DRIFT">>
    ELSE <<"Locked", "R002_STATE_LOCKED">>

transition_from_locked(r) ==
    IF f64_ge(r, F(R_THRESHOLD_LOCKED))
    THEN <<"Drift", "R005_TRANSITION_TO_DRIFT">>
    ELSE <<"Locked", "R002_STATE_LOCKED">>

\* A Drift that nothing ends.
transition_from_drift_NeverRecovers(r) == <<"Drift", "R002_STATE_DRIFT">>

transition_from_drift_Inclusive(r) ==
    IF f64_lt(r, F(R_THRESHOLD_APPROACHING)) \/ r = F(R_THRESHOLD_APPROACHING)
    THEN <<"Approaching", "R005_TRANSITION_RECOVERING">>
    ELSE <<"Drift", "R002_STATE_DRIFT">>

transition_from_drift(r) ==
    IF f64_lt(r, F(R_THRESHOLD_APPROACHING))
    THEN <<"Approaching", "R005_TRANSITION_RECOVERING">>
    ELSE <<"Drift", "R002_STATE_DRIFT">>

compute_transition(state, r, stable_ms) ==
    CASE state = "Waiting"     -> transition_from_waiting(r)
      [] state = "Approaching" -> transition_from_approaching(r, stable_ms)
      [] state = "Locked"      -> transition_from_locked(r)
      [] state = "Drift"       -> transition_from_drift(r)

\* A timer that a high scalar does not stop.
lock_candidate_update_NeverCleared(lcs, r, t) ==
    IF is_none(lcs) THEN Some(t) ELSE lcs

\* A timer that restarts at every lock-candidate update.
lock_candidate_update_Restart(lcs, r, t) ==
    IF f64_lt(r, F(R_THRESHOLD_LOCKED)) THEN Some(t) ELSE None

\* The lock-candidate timer after an update with scalar r at instant t.
lock_candidate_update(lcs, r, t) ==
    IF f64_lt(r, F(R_THRESHOLD_LOCKED))
    THEN (IF is_none(lcs) THEN Some(t) ELSE lcs)
    ELSE None

\* now.duration_since(s).as_millis(), 0 without a timer
stable_ms_at(lcs, t) ==
    IF is_some(lcs) THEN t - unwrap(lcs) ELSE 0

\* An update that rings at every update that ends in Locked.
update_BellWhileLocked(self, r, t) ==
    LET lcs       == lock_candidate_update(self.lock_candidate_since, r, t)
        stable_ms == stable_ms_at(lcs, t)
        tr        == compute_transition(self.state, r, stable_ms)
        new_state == tr[1]
        changed   == new_state # self.state
    IN  [ engine |->
            [ state                |-> new_state,
              state_since          |-> IF changed THEN t ELSE self.state_since,
              last_r               |-> r,
              lock_candidate_since |-> lcs,
              first_input          |-> IF is_none(self.first_input)
                                       THEN Some(t) ELSE self.first_input,
              last_input           |-> t,
              update_count         |-> self.update_count + 1 ],
          output |-> StateOutput_new(r, new_state, stable_ms, tr[2]),
          bell   |-> (new_state = "Locked") ]

\* FacelockEngine::update: the engine after the call, the StateOutput it
\* returns and whether the bell was printed.
update(self, r, t) ==
    LET lcs       == lock_candidate_update(self.lock_candidate_since, r, t)
        stable_ms == stable_ms_at(lcs, t)
        tr        == compute_transition(self.state, r, stable_ms)
        new_state == tr[1]
        changed   == new_state # self.state
    IN  [ engine |->
            [ state                |-> new_state,
              state_since          |-> IF changed THEN t ELSE self.state_since,
              last_r               |-> r,
              lock_candidate_since |-> lcs,
              first_input          |-> IF is_none(self.first_input)
                                       THEN Some(t) ELSE self.first_input,
              last_input           |-> t,
              update_count         |-> self.update_count + 1 ],
          output |-> StateOutput_new(r, new_state, stable_ms, tr[2]),
          bell   |-> (changed /\ new_state = "Locked") ]

---------------------------------------------------------------------------
(* Turn and ConversationWindow, src/src/types/turn.rs                      *)

WINDOW_DURATION_SECS == 30
MAX_TURNS_PER_SPEAKER == 10

\* Turn::new: the timestamp is the instant of creation
Turn_new(speaker, text, r, t) ==
    [ speaker |-> speaker, text |-> text, timestamp |-> Some(t), r |-> r ]

ConversationWindow_new ==
    [ turns |-> <<>>, window_duration |-> WINDOW_DURATION_SECS * 1000 ]

\* The while loop of prune: pop the front while it is older than the window.
prune_by_age(turns, duration, t) ==
    LET RECURSIVE go(_)
        go(q) ==
            IF q = <<>> THEN q
            ELSE IF is_some(q[1].timestamp)
                    /\ t - unwrap(q[1].timestamp) > duration
                 THEN go(Tail(q))
                 ELSE q
    IN  go(turns)

\* A count taken from the front: it passes the cap at the newest turns.
count_from_back_FromFront(turns, i) ==
    Cardinality({ j \in 1..i : turns[j].speaker = turns[i].speaker })

\* The count reached at index i (1-based) when counting from the back.
count_from_back(turns, i) ==
    Cardinality({ j \in i..Len(turns) : turns[j].speaker = turns[i].speaker })

\* to_remove.into_iter().rev(): the 0-based indices over the cap, ascending
to_remove_ascending(turns) ==
    LET RECURSIVE go(_)
        go(i) ==
            IF i > Len(turns) THEN <<>>
            ELSE IF count_from_back(turns, i) > MAX_TURNS_PER_SPEAKER
                 THEN <<i - 1>> \o go(i + 1)
                 ELSE go(i + 1)
    IN  go(1)

\* A removal that fills the hole with the back element (swap_remove_back).
VecDeque_swap_remove_back(q, i) ==
    IF i < Len(q)
    THEN [ k \in 1..(Len(q) - 1) |-> IF k = i + 1 THEN q[Len(q)] ELSE q[k] ]
    ELSE q

\* VecDeque::remove(i), i 0-based; nothing happens past the end
VecDeque_remove(q, i) ==
    IF i < Len(q)
    THEN [ k \in 1..(Len(q) - 1) |-> IF k <= i THEN q[k] ELSE q[k + 1] ]
    ELSE q

\* The removal loop of prune: each index is applied to the deque as the
\* earlier removals left it.
remove_each(turns, indices) ==
    LET RECURSIVE go(_, _)
        go(q, idx) ==
            IF idx = <<>> THEN q
            ELSE go(VecDeque_remove(q, Head(idx)), Tail(idx))
    IN  go(turns, indices)

\* A prune that enforces the window horizon only.
prune_AgeOnly(turns, duration, t) ==
    prune_by_age(turns, duration, t)

\* prune: the age loop, then the per-speaker cap
prune(turns, duration, t) ==
    LET aged == prune_by_age(turns, duration, t)
    IN  remove_each(aged, to_remove_ascending(aged))

add_turn(self, turn, t) ==
    [ self EXCEPT !.turns = prune(Append(self.turns, turn), self.window_duration, t) ]

\* A count that leaves out the turns older than the window at instant 0.
window_len_ExceptAged(self) ==
    Len(prune_by_age(self.turns, self.window_duration, self.window_duration + 1))

window_len(self) == Len(self.turns)

\* turns(): the turns, oldest first
window_turns(self) == self.turns

speakers(self) == { self.turns[i].speaker : i \in 1..Len(self.turns) }

speaker_count(self) == Cardinality(speakers(self))

\* A scan that stops at the first adjacency of one speaker.
paired_turns_StopAtRepeat(self) ==
    LET RECURSIVE go(_)
        go(i) ==
            IF i >= Len(self.turns) THEN <<>>
            ELSE IF self.turns[i].speaker # self.turns[i + 1].speaker
                 THEN <<[ first |-> self.turns[i], second |-> self.turns[i + 1] ]>>
                      \o go(i + 1)
                 ELSE <<>>
    IN  go(1)

\* paired_turns: every adjacent (i, i+1) whose speakers differ, in order
paired_turns(self) ==
    LET RECURSIVE go(_)
        go(i) ==
            IF i >= Len(self.turns) THEN <<>>
            ELSE IF self.turns[i].speaker # self.turns[i + 1].speaker
                 THEN <<[ first |-> self.turns[i], second |-> self.turns[i + 1] ]>>
                      \o go(i + 1)
                 ELSE go(i + 1)
    IN  go(1)

---------------------------------------------------------------------------
(* DcResult, src/src/types/dc.rs (f64 thresholds in hundredths)            *)

DC_THRESHOLD_LOCKED == 10
DC_THRESHOLD_APPROACHING == 15
DC_THRESHOLD_DRIFT == 20

\* The signal weights, in hundredths
DC_WEIGHT_THEMATIC == 31
DC_WEIGHT_EMOTIONAL == 28
DC_WEIGHT_LOGICAL == 22
DC_WEIGHT_QA_MISMATCH == 12
DC_WEIGHT_REFERENCE == 7

DcSignals_zero ==
    [ thematic_drift |-> F(0), emotional_volatility |-> F(0),
      logical_breaks |-> F(0), qa_mismatch |-> F(0), reference_decay |-> F(0) ]

\* DcSignals::weighted_sum, for signals that are numbers; the result is
\* exact when the sum of the products is a whole number of hundredths.
weighted_sum(self) ==
    F((self.thematic_drift[1] * DC_WEIGHT_THEMATIC
       + self.emotional_volatility[1] * DC_WEIGHT_EMOTIONAL
       + self.logical_breaks[1] * DC_WEIGHT_LOGICAL
       + self.qa_mismatch[1] * DC_WEIGHT_QA_MISMATCH
       + self.reference_decay[1] * DC_WEIGHT_REFERENCE) \div 100)

\* f64::clamp
clamp(x, lo, hi) ==
    IF is_nan(x) THEN x
    ELSE IF f64_lt(x, lo) THEN lo
    ELSE IF f64_lt(hi, x) THEN hi
    ELSE x

\* A classification that reports high drift from 0.15 on.
DcResult_success_DriftFromApproaching(value, signals, pair_count, speaker_count_) ==
    [ value  |-> Some(value),
      signals |-> signals,
      reason |-> IF f64_lt(value, F(DC_THRESHOLD_LOCKED))
                 THEN "R015_DC_LOW_COHERENT"
                 ELSE IF f64_lt(value, F(DC_THRESHOLD_APPROACHING))
                 THEN "R010_DC_COMPUTED"
                 ELSE "R014_DC_HIGH_DRIFT",
      pair_count |-> pair_count,
      speaker_count |-> speaker_count_ ]

DcResult_success(value, signals, pair_count, speaker_count_) ==
    [ value  |-> Some(value),
      signals |-> signals,
      reason |-> IF f64_lt(value, F(DC_THRESHOLD_LOCKED))
                 THEN "R015_DC_LOW_COHERENT"
                 ELSE IF f64_lt(value, F(DC_THRESHOLD_APPROACHING))
                 THEN "R010_DC_COMPUTED"
                 ELSE IF f64_lt(value, F(DC_THRESHOLD_DRIFT))
                 THEN "R010_DC_COMPUTED"
                 ELSE "R014_DC_HIGH_DRIFT",
      pair_count |-> pair_count,
      speaker_count |-> speaker_count_ ]

DcResult_unknown(reason) ==
    [ value |-> None, signals |-> DcSignals_zero, reason |-> reason,
      pair_count |-> 0, speaker_count |-> 0 ]

DcResult_is_known(self) == is_some(self.value)

---------------------------------------------------------------------------
(* DcParser, src/src/core/dc_parser.rs.  calculate_signals scores the      *)
(* texts of the pairs by word heuristics; the model takes the DcSignals it *)
(* returns as given (each signal within 0.0..1.0) and computes the rest.   *)

\* A calculate that looks at the speakers before the number of turns.
calculate_SpeakersFirst(self, window_, signals) ==
    IF speaker_count(window_) < 2
    THEN DcResult_unknown("R011_DC_UNKNOWN_SINGLE_SPEAKER")
    ELSE IF window_len(window_) < 2
    THEN DcResult_unknown("R012_DC_UNKNOWN_INSUFFICIENT_TURNS")
    ELSE IF paired_turns(window_) = <<>>
    THEN DcResult_unknown("R016_DC_UNKNOWN_NO_PAIRS")
    ELSE DcResult_success(clamp(weighted_sum(signals), F(0), F(100)), signals,
                          Len(paired_turns(window_)), speaker_count(window_))

\* DcParser::calculate; `signals` is what calculate_signals(&pairs) returns
calculate(self, window_, signals) ==
    IF window_len(window_) < 2
    THEN DcResult_unknown("R012_DC_UNKNOWN_INSUFFICIENT_TURNS")
    ELSE IF speaker_count(window_) < 2
    THEN DcResult_unknown("R011_DC_UNKNOWN_SINGLE_SPEAKER")
    ELSE IF paired_turns(window_) = <<>>
    THEN DcResult_unknown("R016_DC_UNKNOWN_NO_PAIRS")
    ELSE DcResult_success(clamp(weighted_sum(signals), F(0), F(100)), signals,
                          Len(paired_turns(window_)), speaker_count(window_))

---------------------------------------------------------------------------
(* Bytes, integers and SHA-256                                             *)

Byte(n) == <<n>>

zeros(n) == [ i \in 1..n |-> Byte(0) ]

\* str.as_bytes()
as_bytes(str) == [ i \in 1..Len(str) |-> Byte(str[i]) ]

\* bytes[from..to], 0-based and end-exclusive as a Rust range
slice(bytes, from, to) == SubSeq(bytes, from + 1, to)

\* The unsigned integer n (below 2^31) as a value of width w bytes.
uint(n, w) ==
    LET RECURSIVE digits(_, _)
        digits(m, k) ==
            IF k = 0 THEN <<>> ELSE Append(digits(m \div 256, k - 1), m % 256)
    IN  digits(n, w)

\* to_be_bytes / from_be_bytes of an integer
to_be_bytes(x) == [ i \in 1..Len(x) |-> Byte(x[i]) ]
from_be_bytes(bytes) == [ i \in 1..Len(bytes) |-> bytes[i][1] ]

\* f64::to_be_bytes.  The bit pattern of the scalar h/100 stands at
\* 0x4000_0000_0000_0000 + h; NaN is 0x7ff8_0000_0000_0000.  An f64 decoded
\* from any other bit pattern is kept as that pattern (8 digits).
f64_to_be_bytes(x) ==
    to_be_bytes(IF is_nan(x) THEN <<127, 248, 0, 0, 0, 0, 0, 0>>
                ELSE IF Len(x) = 1 THEN <<64, 0, 0, 0, 0, 0>> \o uint(x[1], 2)
                ELSE x)

f64_from_be_bytes(bytes) ==
    LET d == from_be_bytes(bytes)
    IN  IF d = <<127, 248, 0, 0, 0, 0, 0, 0>> THEN NaN
        ELSE IF SubSeq(d, 1, 6) = <<64, 0, 0, 0, 0, 0>> THEN F(d[7] * 256 + d[8])
        ELSE d

\* `x as u64` for an f64 x in hundredths: truncation toward zero,
\* NaN and negative values give 0.
\* A cast that rounds to the nearest whole number.
f64_as_u64_Rounded(x) ==
    IF is_nan(x) \/ x[1] < 0 THEN uint(0, 8) ELSE uint((x[1] + 50) \div 100, 8)

f64_as_u64(x) ==
    IF is_nan(x) \/ x[1] < 0 THEN uint(0, 8) ELSE uint(x[1] \div 100, 8)

\* An injective flattening of a byte string into numbers: every cell
\* preceded by its length.
flatten(bytes) ==
    LET RECURSIVE go(_, _)
        go(lo, hi) ==
            IF lo > hi THEN <<>>
            ELSE IF lo = hi THEN <<Len(bytes[lo])>> \o bytes[lo]
            ELSE go(lo, (lo + hi) \div 2) \o go((lo + hi) \div 2 + 1, hi)
    IN  go(1, Len(bytes))

\* SHA-256 as an ideal hash: 32 cells that determine the input.  Cell 0
\* carries the input, the others only their place in the digest.
sha256(data) ==
    [ i \in 1..32 |-> IF i = 1 THEN <<256>> \o flatten(data) ELSE <<255 + i>> ]

\* Changing one byte into a different one.  A concrete byte n becomes
\* (n + delta) mod 256; a digest cell becomes a cell no digest has.
flip(cell, delta) ==
    IF Len(cell) = 1 /\ cell[1] < 256
    THEN Byte((cell[1] + delta) % 256)
    ELSE cell \o <<delta>>

---------------------------------------------------------------------------
(* ProofPayload and Proof, src/src/types/proof.rs                          *)

PAYLOAD_BYTES == 184
PROOF_SIZE == 248
RESERVED_BYTES == 36

\* A [0u8; n] array whose first bytes have been written, the rest left zero.
written_into_zeros(n, bytes) == bytes \o zeros(n - Len(bytes))

\* A layout that writes the self-hash before the public key.
ProofPayload_to_bytes_HashBeforeKey(self) ==
    written_into_zeros(PAYLOAD_BYTES,
        to_be_bytes(self.version)
        \o self.session_id
        \o f64_to_be_bytes(self.r_final)
        \o f64_to_be_bytes(self.dc_final)
        \o to_be_bytes(self.lock_duration_secs)
        \o to_be_bytes(self.window_start_unix)
        \o to_be_bytes(self.paired_turn_count)
        \o self.conversation_hash
        \o self.payload_hash
        \o self.node_pubkey)

\* ProofPayload::to_bytes: the ten fields written one after the other
\* (offsets 0, 2, 18, 26, 34, 42, 50, 54, 86, 118, ending at 150) into
\* [0u8; 184].
ProofPayload_to_bytes(self) ==
    written_into_zeros(PAYLOAD_BYTES,
        to_be_bytes(self.version)
        \o self.session_id
        \o f64_to_be_bytes(self.r_final)
        \o f64_to_be_bytes(self.dc_final)
        \o to_be_bytes(self.lock_duration_secs)
        \o to_be_bytes(self.window_start_unix)
        \o to_be_bytes(self.paired_turn_count)
        \o self.conversation_hash
        \o self.node_pubkey
        \o self.payload_hash)

\* ProofPayload::from_bytes: the ten fields read back from their offsets
ProofPayload_from_bytes(bytes) ==
    [ version            |-> from_be_bytes(slice(bytes, 0, 2)),
      session_id         |-> slice(bytes, 2, 18),
      r_final            |-> f64_from_be_bytes(slice(bytes, 18, 26)),
      dc_final           |-> f64_from_be_bytes(slice(bytes, 26, 34)),
      lock_duration_secs |-> from_be_bytes(slice(bytes, 34, 42)),
      window_start_unix  |-> from_be_bytes(slice(bytes, 42, 50)),
      paired_turn_count  |-> from_be_bytes(slice(bytes, 50, 54)),
      conversation_hash  |-> slice(bytes, 54, 86),
      node_pubkey        |-> slice(bytes, 86, 118),
      payload_hash       |-> slice(bytes, 118, 150) ]

Proof_new(payload, signature) ==
    [ payload |-> payload, signature |-> signature,
      reserved |-> zeros(RESERVED_BYTES) ]

\* Proof::to_bytes: the payload at 0..184, the signature at 184..248
Proof_to_bytes(self) ==
    written_into_zeros(PROOF_SIZE,
        ProofPayload_to_bytes(self.payload) \o self.signature)

\* A decoder that takes the signature from where the payload fields end.
Proof_from_bytes_SignatureAfterFields(bytes) ==
    [ payload   |-> ProofPayload_from_bytes(slice(bytes, 0, PAYLOAD_BYTES)),
      signature |-> slice(bytes, 150, 214),
      reserved  |-> zeros(RESERVED_BYTES) ]

Proof_from_bytes(bytes) ==
    [ payload   |-> ProofPayload_from_bytes(slice(bytes, 0, PAYLOAD_BYTES)),
      signature |-> slice(bytes, PAYLOAD_BYTES, PROOF_SIZE),
      reserved  |-> zeros(RESERVED_BYTES) ]

\* The length of the hex form, in characters
HEX_LEN == 496

\* One hexadecimal digit as format!("{:02x}") prints it: '0'..'9', 'a'..'f'
hex_digit(n) == IF n < 10 THEN 48 + n ELSE 87 + n

\* Proof::to_hex, for a proof all of whose bytes are numbers: two lowercase
\* digits per byte of to_bytes().
Proof_to_hex(self) ==
    LET bytes == Proof_to_bytes(self)
    IN  [ i \in 1..(2 * Len(bytes)) |->
            IF i % 2 = 1 THEN hex_digit(bytes[(i + 1) \div 2][1] \div 16)
                         ELSE hex_digit(bytes[(i + 1) \div 2][1] % 16) ]

\* char::to_digit(16): '0'..'9', 'a'..'f', 'A'..'F'
to_digit(c) ==
    IF c >= 48 /\ c <= 57 THEN Some(c - 48)
    ELSE IF c >= 97 /\ c <= 102 THEN Some(c - 87)
    ELSE IF c >= 65 /\ c <= 70 THEN Some(c - 55)
    ELSE None

\* std::str::from_utf8 on a chunk of one or two bytes: ASCII, or one
\* two-byte character.
from_utf8(chunk) ==
    IF \A i \in 1..Len(chunk) : chunk[i] < 128 THEN Some(chunk)
    ELSE IF Len(chunk) = 2 /\ chunk[1] >= 194 /\ chunk[1] <= 223
               /\ chunk[2] >= 128 /\ chunk[2] <= 191
    THEN Some(chunk)
    ELSE None

\* u8::from_str_radix(s, 16) for s of at most two bytes: an optional '+',
\* then one or more digits; a lone sign and a '-' are errors.
u8_from_str_radix(s) ==
    IF s = <<>> THEN None
    ELSE IF Len(s) = 1 /\ s[1] \in {43, 45} THEN None
    ELSE LET digits == IF s[1] = 43 THEN Tail(s) ELSE s
         IN  IF \E i \in 1..Len(digits) : is_none(to_digit(digits[i])) THEN None
             ELSE IF Len(digits) = 1 THEN to_digit(digits[1])
             ELSE Some(unwrap(to_digit(digits[1])) * 16 + unwrap(to_digit(digits[2])))

\* The byte a two-character chunk of the hex string stands for, if any.
parse_chunk(chunk) ==
    IF is_none(from_utf8(chunk)) THEN None ELSE u8_from_str_radix(chunk)

\* Proof::from_hex
Proof_from_hex(hex) ==
    IF Len(hex) # HEX_LEN THEN None
    ELSE LET parsed == [ i \in 1..PROOF_SIZE |->
                           parse_chunk(<<hex[2 * i - 1], hex[2 * i]>>) ]
         IN  IF \E i \in 1..PROOF_SIZE : is_none(parsed[i]) THEN None
             ELSE Some(Proof_from_bytes([ i \in 1..PROOF_SIZE |-> Byte(unwrap(parsed[i])) ]))

ProofResult_success(proof) ==
    [ proof |-> Some(proof), reason |-> "R200_PROOF_GENERATED" ]

ProofResult_failure(reason) ==
    [ proof |-> None, reason |-> reason ]

---------------------------------------------------------------------------
(* ProofGenerator and verify_proof, src/src/core/proof.rs                  *)

\* f64 seconds in hundredths
LOCKED_MIN_DURATION_SECS == 800

\* Bytes 0..118 of the payload are the ones the self-hash covers.
HASHED_PREFIX == 118

\* The test signer: SHA-256 of the data, then SHA-256 of that.
mock_sign(data) ==
    LET h1 == sha256(data)
        h2 == sha256(h1)
    IN  h1 \o h2

mock_verify(data, sig, pubkey) == sig = mock_sign(data)

\* A signer whose signatures the test verifier does not accept.
sign_call_Foreign(sign_fn, data) == sha256(data) \o sha256(data)

\* The injected functions, by name.
sign_call(sign_fn, data) ==
    CASE sign_fn = "mock_sign" -> mock_sign(data)

verify_call(verify_fn, data, sig, pubkey) ==
    CASE verify_fn = "mock_verify" -> mock_verify(data, sig, pubkey)

\* The bytes hash_paired_turns feeds to the hasher: for every pair the four
\* strings, each followed by one zero byte.
hashed_stream(pairs) ==
    LET RECURSIVE stream(_)
        stream(i) ==
            IF i > Len(pairs) THEN <<>>
            ELSE as_bytes(pairs[i].first.speaker) \o <<Byte(0)>>
                 \o as_bytes(pairs[i].first.text) \o <<Byte(0)>>
                 \o as_bytes(pairs[i].second.speaker) \o <<Byte(0)>>
                 \o as_bytes(pairs[i].second.text) \o <<Byte(0)>>
                 \o stream(i + 1)
    IN  stream(1)

\* A content hash that covers only the number of pairs.
hash_paired_turns_CountOnly(pairs) == sha256(<<Byte(Len(pairs))>>)

hash_paired_turns(pairs) == sha256(hashed_stream(pairs))

\* A policy check that looks at the duration before the state.
can_generate_DurationFirst(self, state, locked_duration_secs, dc_result, window_) ==
    IF f64_lt(locked_duration_secs, F(LOCKED_MIN_DURATION_SECS))
    THEN "R201_PROOF_NOT_STABLE"
    ELSE IF state # "Locked" THEN "R204_PROOF_NOT_LOCKED"
    ELSE IF ~DcResult_is_known(dc_result) THEN "R202_PROOF_DC_UNKNOWN"
    ELSE IF paired_turns(window_) = <<>> THEN "R203_PROOF_WINDOW_EMPTY"
    ELSE "Ok"

\* ProofGenerator::can_generate: "Ok" or the denial reason
can_generate(self, state, locked_duration_secs, dc_result, window_) ==
    IF state # "Locked" THEN "R204_PROOF_NOT_LOCKED"
    ELSE IF f64_lt(locked_duration_secs, F(LOCKED_MIN_DURATION_SECS))
    THEN "R201_PROOF_NOT_STABLE"
    ELSE IF ~DcResult_is_known(dc_result) THEN "R202_PROOF_DC_UNKNOWN"
    ELSE IF paired_turns(window_) = <<>> THEN "R203_PROOF_WINDOW_EMPTY"
    ELSE "Ok"

\* The proof generate builds once the policy check has passed.
build_proof(self, session_id, locked_duration_secs, r_final, dc_result, window_, unix_now, sign_fn) ==
    LET pairs   == paired_turns(window_)
        payload ==
            [ version            |-> uint(1, 2),
              session_id         |-> session_id,
              r_final            |-> r_final,
              dc_final           |-> IF is_some(dc_result.value)
                                     THEN unwrap(dc_result.value) ELSE F(0),
              lock_duration_secs |-> f64_as_u64(locked_duration_secs),
              window_start_unix  |-> IF pairs # <<>> /\ is_some(pairs[1].first.timestamp)
                                     THEN unix_now ELSE uint(0, 8),
              paired_turn_count  |-> uint(Len(pairs), 4),
              conversation_hash  |-> hash_paired_turns(pairs),
              node_pubkey        |-> self.node_pubkey,
              payload_hash       |-> zeros(32) ]
        partial_bytes == ProofPayload_to_bytes(payload)
        hashed  == [ payload EXCEPT
                       !.payload_hash = sha256(slice(partial_bytes, 0, HASHED_PREFIX)) ]
    IN  Proof_new(hashed, sign_call(sign_fn, ProofPayload_to_bytes(hashed)))

\* A generator that refuses every call.
generate_Refusing(self, session_id, state, locked_duration_secs, r_final, dc_result, window_, unix_now, sign_fn) ==
    ProofResult_failure("R204_PROOF_NOT_LOCKED")

generate(self, session_id, state, locked_duration_secs, r_final, dc_result, window_, unix_now, sign_fn) ==
    LET denied == can_generate(self, state, locked_duration_secs, dc_result, window_)
    IN  IF denied # "Ok"
        THEN ProofResult_failure(denied)
        ELSE ProofResult_success(build_proof(self, session_id, locked_duration_secs, r_final, dc_result, window_, unix_now, sign_fn))

\* A verifier that trusts the signature and skips the self-hash.
verify_proof_SignatureOnly(proof, verify_fn) ==
    verify_call(verify_fn, ProofPayload_to_bytes(proof.payload),
                proof.signature, proof.payload.node_pubkey)

verify_proof(proof, verify_fn) ==
    LET payload_bytes == ProofPayload_to_bytes(proof.payload)
    IN  IF ~verify_call(verify_fn, payload_bytes, proof.signature, proof.payload.node_pubkey)
        THEN FALSE
        ELSE IF sha256(slice(payload_bytes, 0, HASHED_PREFIX)) # proof.payload.payload_hash
        THEN FALSE
        ELSE TRUE

---------------------------------------------------------------------------
(* Actions of the engine                                                   *)

NoHistory ==
    [ last_high |-> None, lost_lock |-> None, nan_seen |-> FALSE,
      calm |-> None ]

InitEngine ==
    /\ now = 0
    /\ engine = FacelockEngine_new(0)
    /\ output = StateOutput_new(F(100), "Waiting", 0, "R002_STATE_WAITING")
    /\ prev_state = "Waiting"
    /\ bell = FALSE
    /\ run_start = None
    /\ history = NoHistory

\* Time passes between two calls.
Tick ==
    /\ \E d \in TickSteps :
          /\ now + d <= MaxClock
          /\ now' = now + d
    /\ UNCHANGED <<engine, output, prev_state, bell, run_start, history>>
    /\ UNCHANGED proof_vars
    /\ UNCHANGED caller_vars
    /\ UNCHANGED site_vars

\* engine.update(r) called at instant t: the engine, what the call returned
\* and what is remembered of the updates so far.  calm is kept as given.
UpdateAt(r, t, calm) ==
    LET u == update(engine, r, t)
    IN  /\ engine' = u.engine
        /\ output' = u.output
        /\ bell' = u.bell
        /\ run_start' = IF ~f64_lt(r, F(R_THRESHOLD_LOCKED)) THEN None
                        ELSE IF is_some(run_start) THEN run_start
                        ELSE Some(t)
        /\ history' =
              [ last_high |-> IF f64_ge(r, F(R_THRESHOLD_LOCKED))
                              THEN Some(t) ELSE history.last_high,
                lost_lock |-> IF engine.state = "Locked" /\ u.engine.state # "Locked"
                              THEN Some(t) ELSE history.lost_lock,
                nan_seen  |-> (history.nan_seen \/ is_nan(r)),
                calm      |-> calm ]
        /\ prev_state' = engine.state

\* engine.update(r), reading the clock at the call.
Update ==
    /\ engine.update_count < MaxUpdates
    /\ \E r \in RValues : UpdateAt(r, now, history.calm)
    /\ UNCHANGED now
    /\ UNCHANGED proof_vars
    /\ UNCHANGED caller_vars
    /\ UNCHANGED site_vars

\* The engine before the scalars settle: a few updates of any kind.
MaxLiveUpdates == 4
MaxLiveClock == 8000
MaxCalmClock == 32000

TickBefore ==
    /\ is_none(history.calm)
    /\ now < MaxLiveClock
    /\ Tick

UpdateBefore ==
    /\ is_none(history.calm)
    /\ engine.update_count < MaxLiveUpdates
    /\ Update

\* The scalars below the lock threshold
CalmValues == { r \in RValues : f64_lt(r, F(R_THRESHOLD_LOCKED)) }

\* From some point on every update has a scalar below 0.15, and an update
\* arrives every few seconds.  calm remembers the state that point found.
CalmRound ==
    /\ \E d \in TickSteps :
          /\ now + d <= MaxCalmClock
          /\ now' = now + d
          /\ \E r \in CalmValues :
                UpdateAt(r, now + d,
                         IF is_none(history.calm) THEN Some(engine.state)
                         ELSE history.calm)
    /\ UNCHANGED proof_vars
    /\ UNCHANGED caller_vars
    /\ UNCHANGED site_vars

---------------------------------------------------------------------------
(* Actions of the window and the proof generator                           *)

MaxTurns == 2

Speakers == { <<65>>, <<66>> }
Texts == { <<72, 105>> }
SecondsValues == { F(799), F(800), F(1250), NaN }
DcResults ==
    { DcResult_unknown("R011_DC_UNKNOWN_SINGLE_SPEAKER"),
      DcResult_success(F(5), DcSignals_zero, 1, 2) }
FlipDeltas == { 1, 255 }

\* ProofGenerator::new with a fixed public key
generator == [ node_pubkey |-> [ i \in 1..32 |-> Byte(i) ] ]

session_id_0 == zeros(16)

\* chrono::Utc::now().timestamp() at the generate calls
unix_now_0 == uint(1700000000, 8)

NoCall ==
    [ op |-> "none", state |-> "Waiting", locked_duration_secs |-> F(0),
      r_final |-> F(0), dc_result |-> DcResult_unknown("R012_DC_UNKNOWN_INSUFFICIENT_TURNS"),
      window |-> ConversationWindow_new, reason |-> "none", proof |-> None,
      pairs |-> <<>>, value |-> F(0), repeated |-> FALSE,
      len |-> 0, speaker_count |-> 0, turns |-> <<>>, at |-> 0 ]

\* No proof has been given to verify_proof yet.
NoTamper ==
    [ done |-> FALSE, kind |-> "none", index |-> 0, delta |-> 0,
      verified |-> FALSE ]

InitProof ==
    /\ window = ConversationWindow_new
    /\ call = NoCall
    /\ tamper = NoTamper

\* window.add_turn(Turn::new(speaker, text, r)).  A verification experiment
\* is the last step of a run: it changes nothing the program holds, so
\* every state after it is reached without it.
AddTurn ==
    /\ ~tamper.done
    /\ Len(window.turns) < MaxTurns
    /\ \E speaker \in Speakers, text \in Texts :
          window' = add_turn(window, Turn_new(speaker, text, F(5), now), now)
    /\ UNCHANGED <<call, tamper>>
    /\ UNCHANGED engine_vars
    /\ UNCHANGED caller_vars
    /\ UNCHANGED site_vars

\* generator.can_generate(state, locked_duration_secs, &dc_result, &window)
CanGenerate ==
    /\ ~tamper.done
    /\ \E state \in FacelockState, secs \in SecondsValues, dc \in DcResults :
          call' = [ NoCall EXCEPT
                      !.op = "can_generate", !.state = state,
                      !.locked_duration_secs = secs, !.dc_result = dc,
                      !.window = window,
                      !.reason = can_generate(generator, state, secs, dc, window) ]
    /\ tamper' = NoTamper
    /\ UNCHANGED window
    /\ UNCHANGED engine_vars
    /\ UNCHANGED caller_vars
    /\ UNCHANGED site_vars

\* generator.generate(session_id, state, locked_duration_secs, r_final,
\*                    &dc_result, &window, mock_sign)
Generate ==
    /\ ~tamper.done
    /\ \E state \in FacelockState, secs \in SecondsValues, dc \in DcResults :
          LET res == generate(generator, session_id_0, state, secs, F(5), dc, window, unix_now_0, "mock_sign")
          IN  call' = [ NoCall EXCEPT
                          !.op = "generate", !.state = state,
                          !.locked_duration_secs = secs, !.r_final = F(5),
                          !.dc_result = dc, !.window = window,
                          !.reason = res.reason, !.proof = res.proof,
                          !.repeated = (call.op = "generate" /\ is_some(call.proof)) ]
    /\ tamper' = NoTamper
    /\ UNCHANGED window
    /\ UNCHANGED engine_vars
    /\ UNCHANGED caller_vars
    /\ UNCHANGED site_vars

\* The proof as a receiver decodes it after one byte of its serialization
\* has been changed.
tampered_proof(proof, index, delta) ==
    LET bytes == Proof_to_bytes(proof)
        wire  == [ bytes EXCEPT ![index + 1] = flip(bytes[index + 1], delta) ]
    IN  Proof_from_bytes(wire)

\* The same, by someone who holds the signing function: the changed payload
\* is signed again.
resigned_proof(proof, index, delta) ==
    LET changed == tampered_proof(proof, index, delta)
    IN  Proof_new(changed.payload,
                  sign_call("mock_sign", ProofPayload_to_bytes(changed.payload)))

\* The proof that was given to verify_proof in the experiment `t` on `proof`.
presented_proof(proof, t) ==
    CASE t.kind = "flip"   -> tampered_proof(proof, t.index, t.delta)
      [] t.kind = "resign" -> resigned_proof(proof, t.index, t.delta)
      [] OTHER             -> proof

\* verify_proof(&proof, mock_verify) on the proof as generate returned it.
\* Each issued proof goes through one experiment.
Verify ==
    /\ call.op = "generate"
    /\ is_some(call.proof)
    /\ ~tamper.done
    /\ tamper' = [ done |-> TRUE, kind |-> "verify", index |-> 0, delta |-> 0,
                   verified |-> verify_proof(unwrap(call.proof), "mock_verify") ]
    /\ UNCHANGED <<window, call>>
    /\ UNCHANGED engine_vars
    /\ UNCHANGED caller_vars
    /\ UNCHANGED site_vars

\* One byte of the serialized proof (payload or signature) is changed, the
\* bytes are decoded and the result is given to verify_proof.
TamperVerify ==
    /\ call.op = "generate"
    /\ is_some(call.proof)
    /\ ~tamper.done
    /\ \E index \in 0..(PROOF_SIZE - 1), delta \in FlipDeltas :
          tamper' = [ done |-> TRUE, kind |-> "flip", index |-> index, delta |-> delta,
                      verified |-> verify_proof(tampered_proof(unwrap(call.proof), index, delta), "mock_verify") ]
    /\ UNCHANGED <<window, call>>
    /\ UNCHANGED engine_vars
    /\ UNCHANGED caller_vars
    /\ UNCHANGED site_vars

\* One byte of the payload is changed and the payload signed again before
\* verify_proof sees it.
ResignVerify ==
    /\ call.op = "generate"
    /\ is_some(call.proof)
    /\ ~tamper.done
    /\ \E index \in 0..(PAYLOAD_BYTES - 1), delta \in FlipDeltas :
          tamper' = [ done |-> TRUE, kind |-> "resign", index |-> index, delta |-> delta,
                      verified |-> verify_proof(resigned_proof(unwrap(call.proof), index, delta), "mock_verify") ]
    /\ UNCHANGED <<window, call>>
    /\ UNCHANGED engine_vars
    /\ UNCHANGED caller_vars
    /\ UNCHANGED site_vars

---------------------------------------------------------------------------
(* Actions of a caller that feeds the window over time                     *)

MaxAdds == 4
MaxBurst == 12
MaxWindowClock == 30001

\* The time that passes between two calls, in ms: the window horizon and
\* one millisecond more.
WindowSteps == { WINDOW_DURATION_SECS * 1000, WINDOW_DURATION_SECS * 1000 + 1 }

NoAdd == [ count |-> 0, turn |-> None, at |-> 0, before |-> <<>> ]

InitWindow ==
    /\ held = None
    /\ added = NoAdd

Elapse ==
    /\ \E d \in WindowSteps :
          /\ now + d <= MaxWindowClock
          /\ now' = now + d
    /\ UNCHANGED <<engine, output, prev_state, bell, run_start, history>>
    /\ UNCHANGED proof_vars
    /\ UNCHANGED caller_vars
    /\ UNCHANGED site_vars

\* let turn = Turn::new(speaker, text, r), kept by the caller for later.
HoldTurn ==
    /\ is_none(held)
    /\ added.count = 0
    /\ \E speaker \in Speakers, text \in Texts :
          held' = Some(Turn_new(speaker, text, F(5), now))
    /\ UNCHANGED <<added, codec>>
    /\ UNCHANGED engine_vars
    /\ UNCHANGED proof_vars
    /\ UNCHANGED site_vars

\* window.add_turn(Turn::new(speaker, text, r)), at most `limit` times.  The
\* caller gives the n-th turn the scalar n hundredths, which tells any two
\* turns apart.
AddNewTurnWithin(limit) ==
    /\ added.count < limit
    /\ \E speaker \in Speakers, text \in Texts :
          LET turn == Turn_new(speaker, text, F(added.count + 1), now)
          IN  /\ window' = add_turn(window, turn, now)
              /\ added' = [ count |-> added.count + 1, turn |-> Some(turn),
                            at |-> now, before |-> window.turns ]
    /\ UNCHANGED <<call, tamper, held, codec>>
    /\ UNCHANGED engine_vars
    /\ UNCHANGED site_vars

\* A caller whose session has pauses
AddNewTurn == AddNewTurnWithin(MaxAdds)

\* A caller that adds many turns
AddTurnBurst == AddNewTurnWithin(MaxBurst)

\* window.add_turn(turn) with the turn created earlier
AddHeldTurn ==
    /\ added.count < MaxAdds
    /\ is_some(held)
    /\ window' = add_turn(window, unwrap(held), now)
    /\ added' = [ count |-> added.count + 1, turn |-> held,
                  at |-> now, before |-> window.turns ]
    /\ held' = None
    /\ UNCHANGED <<call, tamper, codec>>
    /\ UNCHANGED engine_vars
    /\ UNCHANGED site_vars

---------------------------------------------------------------------------
(* Queries on the window and the aggregator                                *)

\* What calculate_signals may return: all five signals at one level.
SignalLevels == { 0, 9, 10, 19, 20, 100 }

uniform_signals(level) ==
    [ thematic_drift |-> F(level), emotional_volatility |-> F(level),
      logical_breaks |-> F(level), qa_mismatch |-> F(level),
      reference_decay |-> F(level) ]

\* The values DcResult::success is called with.
DcValues == { F(0), F(9), F(10), F(14), F(15), F(19), F(20), F(100), NaN }

parser == [ unit |-> TRUE ]

\* window.paired_turns()
\* window.len(), window.speaker_count() and window.turns(), at one instant
Queries ==
    /\ call' = [ NoCall EXCEPT !.op = "queries", !.window = window,
                               !.len = window_len(window),
                               !.speaker_count = speaker_count(window),
                               !.turns = window_turns(window),
                               !.at = now ]
    /\ UNCHANGED <<window, tamper>>
    /\ UNCHANGED engine_vars
    /\ UNCHANGED caller_vars
    /\ UNCHANGED site_vars

PairedTurns ==
    /\ call' = [ NoCall EXCEPT !.op = "paired_turns", !.window = window,
                               !.pairs = paired_turns(window) ]
    /\ UNCHANGED <<window, tamper>>
    /\ UNCHANGED engine_vars
    /\ UNCHANGED caller_vars
    /\ UNCHANGED site_vars

\* parser.calculate(&window)
Calculate ==
    /\ \E level \in SignalLevels :
          call' = [ NoCall EXCEPT !.op = "calculate", !.window = window,
                                 !.value = F(level),
                                 !.dc_result = calculate(parser, window, uniform_signals(level)) ]
    /\ UNCHANGED <<window, tamper>>
    /\ UNCHANGED engine_vars
    /\ UNCHANGED caller_vars
    /\ UNCHANGED site_vars

\* DcResult::success(value, signals, pair_count, speaker_count)
Success ==
    /\ \E value \in DcValues, signals \in { DcSignals_zero, uniform_signals(100) } :
          call' = [ NoCall EXCEPT !.op = "success", !.value = value,
                                 !.dc_result = DcResult_success(value, signals, 1, 2) ]
    /\ UNCHANGED <<window, tamper>>
    /\ UNCHANGED engine_vars
    /\ UNCHANGED caller_vars
    /\ UNCHANGED site_vars

---------------------------------------------------------------------------
(* Encoding and decoding of proofs                                         *)

\* Field values of the proofs given to the encoders.
bytes_of(n, b) == [ i \in 1..n |-> Byte(b) ]

VersionValues == { uint(1, 2), uint(65535, 2) }
ScalarValues == { F(5), NaN, <<255, 240, 0, 0, 0, 0, 0, 0>> }
DurationValues == { uint(8, 8), <<255, 255, 255, 255, 255, 255, 255, 255>> }
ByteFills == { 0, 171 }

\* The proofs given to the encoders: every field takes at least two values.
CodecProofs ==
    { Proof_new([ version            |-> version,
                  session_id         |-> bytes_of(16, fill),
                  r_final            |-> r_final,
                  dc_final           |-> dc_final,
                  lock_duration_secs |-> duration,
                  window_start_unix  |-> duration,
                  paired_turn_count  |-> SubSeq(duration, 5, 8),
                  conversation_hash  |-> bytes_of(32, fill),
                  node_pubkey        |-> bytes_of(32, 255 - fill),
                  payload_hash       |-> bytes_of(32, fill) ],
                bytes_of(64, 255 - fill)) :
        version \in VersionValues, r_final \in ScalarValues,
        dc_final \in ScalarValues, duration \in DurationValues,
        fill \in ByteFills }

\* Hex strings given to from_hex: one character repeated 496 times, and the
\* hex form of a proof with one character replaced, dropped or added.
HexFills == { 48, 97, 65 }
HexPositions == { 0, 1, 300, 495 }
HexChars == { 48, 102, 70, 43, 45, 103, 195 }
HexLengths == { 0, 495, 497 }

NoCodec ==
    [ op |-> "none", proof |-> None, bytes |-> <<>>, hex |-> <<>>,
      decoded |-> None, parsed |-> None ]

InitCodec == codec = NoCodec

\* p.to_bytes(), Proof::from_bytes(..), p.to_hex(), Proof::from_hex(..)
RoundTrip ==
    /\ codec.op = "none"
    /\ \E proof \in CodecProofs :
          codec' = [ op |-> "round_trip", proof |-> Some(proof),
                     bytes |-> Proof_to_bytes(proof),
                     hex |-> Proof_to_hex(proof),
                     decoded |-> Some(Proof_from_bytes(Proof_to_bytes(proof))),
                     parsed |-> Proof_from_hex(Proof_to_hex(proof)) ]
    /\ UNCHANGED <<held, added>>
    /\ UNCHANGED engine_vars
    /\ UNCHANGED proof_vars
    /\ UNCHANGED site_vars

\* Proof::from_hex(hex) and, when it returns a proof, to_hex() of it
from_hex_call(hex) ==
    [ op |-> "from_hex", proof |-> None, bytes |-> <<>>, hex |-> hex,
      decoded |-> None, parsed |-> Proof_from_hex(hex) ]

\* from_hex on a string of one repeated character
FromHexFill ==
    /\ codec.op = "none"
    /\ \E c \in HexFills, n \in HexLengths \cup {HEX_LEN} :
          codec' = from_hex_call([ i \in 1..n |-> c ])
    /\ UNCHANGED <<held, added>>
    /\ UNCHANGED engine_vars
    /\ UNCHANGED proof_vars
    /\ UNCHANGED site_vars

\* from_hex on the hex form of the proof just encoded, one character replaced
FromHexEdited ==
    /\ codec.op = "round_trip"
    /\ \E at \in HexPositions, c \in HexChars :
          codec' = from_hex_call([ codec.hex EXCEPT ![at + 1] = c ])
    /\ UNCHANGED <<held, added>>
    /\ UNCHANGED engine_vars
    /\ UNCHANGED proof_vars
    /\ UNCHANGED site_vars

---------------------------------------------------------------------------
(* Two content hashes compared, src/src/core/proof.rs                      *)

MaxContent == 3

HashSpeakers == { <<65>>, <<66>> }
HashTexts == { <<72, 105>>, <<72, 0>> }
HashChars == { 0, 120 }
HashScalars == { F(5), F(90) }
HashInstants == { 0, 7 }

\* Strings with and without the separator byte inside
StreamStrings == { <<65>>, <<66>>, <<65, 0, 66>>, <<66, 0, 65>> }

\* The (speaker, text) sequences of at most MaxContent turns
Contents ==
    UNION { [ 1..n -> HashSpeakers \X HashTexts ] : n \in 0..MaxContent }

\* A window the caller fills turn by turn: window.add_turn(Turn::new(..))
\* for every (speaker, text) of the sequence, all at instant t.
window_of(content, r, t) ==
    LET RECURSIVE go(_, _)
        go(w, i) ==
            IF i > Len(content) THEN w
            ELSE go(add_turn(w, Turn_new(content[i][1], content[i][2], r, t), t), i + 1)
    IN  go(ConversationWindow_new, 1)

NoHash ==
    [ op |-> "none", first |-> ConversationWindow_new,
      second |-> ConversationWindow_new, first_pairs |-> <<>>,
      second_pairs |-> <<>>, first_hash |-> zeros(32),
      second_hash |-> zeros(32), changed |-> 0 ]

\* hash_paired_turns(&first.paired_turns()) and the same of second
hash_windows(op, first, second, changed) ==
    [ op |-> op, first |-> first, second |-> second,
      first_pairs |-> paired_turns(first),
      second_pairs |-> paired_turns(second),
      first_hash |-> hash_paired_turns(paired_turns(first)),
      second_hash |-> hash_paired_turns(paired_turns(second)),
      changed |-> changed ]

\* Two windows filled with the same (speaker, text) sequence, at different
\* instants and with different scalars, and their content hashes.
HashSameContent ==
    /\ hashing.op = "none"
    /\ \E content \in Contents, r \in HashScalars, t \in HashInstants :
          hashing' = hash_windows("same", window_of(content, F(5), 0),
                                  window_of(content, r, t), 0)
    /\ UNCHANGED <<session, requests, lock>>
    /\ UNCHANGED engine_vars
    /\ UNCHANGED proof_vars
    /\ UNCHANGED caller_vars

\* Two windows whose turn sequences differ in one character of one text.
HashChangedText ==
    /\ hashing.op = "none"
    /\ \E content \in Contents :
       \E i \in 1..Len(content) :
       \E k \in 1..Len(content[i][2]) :
       \E c \in HashChars \ { content[i][2][k] } :
          LET text == [ content[i][2] EXCEPT ![k] = c ]
              other == [ content EXCEPT ![i] = <<content[i][1], text>> ]
          IN  hashing' = hash_windows("changed", window_of(content, F(5), 0),
                                      window_of(other, F(5), 0), i)
    /\ UNCHANGED <<session, requests, lock>>
    /\ UNCHANGED engine_vars
    /\ UNCHANGED proof_vars
    /\ UNCHANGED caller_vars

\* One pair of turns with the given first turn and a fixed second turn
pair_of(speaker, text) ==
    [ first  |-> Turn_new(speaker, text, F(5), 0),
      second |-> Turn_new(<<67>>, <<67>>, F(5), 0) ]

\* hash_paired_turns on two slices of one pair each
HashPairs ==
    /\ hashing.op = "none"
    /\ \E s1 \in StreamStrings, t1 \in StreamStrings,
          s2 \in StreamStrings, t2 \in StreamStrings :
          hashing' = [ NoHash EXCEPT
                         !.op = "pairs",
                         !.first_pairs = <<pair_of(s1, t1)>>,
                         !.second_pairs = <<pair_of(s2, t2)>>,
                         !.first_hash = hash_paired_turns(<<pair_of(s1, t1)>>),
                         !.second_hash = hash_paired_turns(<<pair_of(s2, t2)>>) ]
    /\ UNCHANGED <<session, requests, lock>>
    /\ UNCHANGED engine_vars
    /\ UNCHANGED proof_vars
    /\ UNCHANGED caller_vars

---------------------------------------------------------------------------
(* The session call sites: add_turn of src/src/core/api.rs and the loop    *)
(* of run_duo in src/src/main.rs                                           *)

MaxSessionTurns == 5
MaxSessionClock == 16000

SessionSteps == { 8000 }
\* What the two parsers make of a turn: the scalar of its text and the
\* signals of the window with it.  A calm turn, a calm turn that diverges
\* from the other speaker, a turn with a high scalar.
SessionInputs ==
    { <<F(5), DcSignals_zero>>, <<F(5), uniform_signals(100)>>,
      <<F(30), DcSignals_zero>> }

PROOF_STABLE_MS == 8000

\* f64::max: the larger one, the other one if one is NaN
f64_max(a, b) ==
    IF is_nan(a) THEN b
    ELSE IF is_nan(b) THEN a
    ELSE IF a[1] >= b[1] THEN a ELSE b

\* stable_ms as f64 / 1000.0, in hundredths of a second
stable_secs(stable_ms) == F(stable_ms \div 10)

\* What a call site holds: Session of api.rs, the locals of run_duo.  site
\* is the call site that serves the session; r_value, dc_result and output
\* are the locals of the handler that runs or ran last; turns counts the
\* calls of window.add_turn, issued tells whether the last handler issued
\* a proof, proofs counts the proofs issued, since_issue is what the engine
\* did since the last issued proof, attempt is the reason code generate
\* returned if the last handler called it, broadcast is the SessionUpdate
\* the last handler sent on update_tx.
Session_new ==
    [ site            |-> "none",
      engine          |-> FacelockEngine_new(0),
      window          |-> ConversationWindow_new,
      last_proof      |-> None,
      proof_generated |-> FALSE,
      r_value         |-> F(0),
      dc_result       |-> DcResult_unknown("R012_DC_UNKNOWN_INSUFFICIENT_TURNS"),
      output          |-> StateOutput_new(F(100), "Waiting", 0, "R002_STATE_WAITING"),
      turns           |-> 0,
      issued          |-> FALSE,
      proofs          |-> 0,
      since_issue     |-> "never",
      attempt         |-> None,
      broadcast       |-> None ]

\* let r_value = r_parser.parse(text); window.add_turn(Turn::new(..))
append_turn(s, site, speaker, text, r_value, t) ==
    [ s EXCEPT !.site = site,
               !.r_value = r_value,
               !.window = add_turn(s.window, Turn_new(speaker, text, r_value, t), t),
               !.turns = s.turns + 1,
               !.issued = FALSE,
               !.attempt = None ]

\* let dc_result = dc_parser.calculate(&window)
aggregate(s, signals) ==
    [ s EXCEPT !.dc_result = calculate(parser, s.window, signals) ]

\* The scalar given to the engine: the larger of r and the aggregate
effective_r(s) ==
    IF is_some(s.dc_result.value)
    THEN f64_max(s.r_value, unwrap(s.dc_result.value))
    ELSE s.r_value

\* let output = engine.update(effective_r)
engine_update(s, t) ==
    LET u == update(s.engine, effective_r(s), t)
    IN  [ s EXCEPT !.engine = u.engine,
                   !.output = u.output,
                   !.since_issue = IF u.output.state # "Locked" /\ @ = "locked"
                                   THEN "left" ELSE @ ]

\* The proof was already issued in this lock episode.
already_issued(s) ==
    IF s.site = "http" THEN is_some(s.last_proof) ELSE s.proof_generated

\* A guard that does not ask whether the aggregate is known.
may_issue_WithoutAggregate(s) ==
    /\ s.output.state = "Locked"
    /\ s.output.stable_ms >= PROOF_STABLE_MS
    /\ ~already_issued(s)

\* The guard of the issuance block
may_issue(s) ==
    /\ s.output.state = "Locked"
    /\ s.output.stable_ms >= PROOF_STABLE_MS
    /\ ~already_issued(s)
    /\ DcResult_is_known(s.dc_result)

\* The issuance block: generate, then last_proof = Some(proof.to_bytes())
\* in add_turn, proof_generated = true in run_duo.
issue(s) ==
    IF ~may_issue(s) THEN s
    ELSE LET res == generate(generator, session_id_0, s.output.state,
                             stable_secs(s.output.stable_ms), s.output.r,
                             s.dc_result, s.window, unix_now_0, "mock_sign")
         IN  IF is_none(res.proof) THEN [ s EXCEPT !.attempt = Some(res.reason) ]
             ELSE [ s EXCEPT
                      !.attempt = Some(res.reason),
                      !.last_proof = IF s.site = "http"
                                     THEN Some(Proof_to_bytes(unwrap(res.proof)))
                                     ELSE @,
                      !.proof_generated = IF s.site = "duo" THEN TRUE ELSE @,
                      !.issued = TRUE,
                      !.proofs = @ + 1,
                      !.since_issue = "locked" ]

\* SessionUpdate { .. } sent on update_tx by add_turn; run_duo prints.
broadcast_update(s) ==
    IF s.site # "http" THEN s
    ELSE [ s EXCEPT !.broadcast =
             Some([ r               |-> s.output.r,
                    dc              |-> s.dc_result.value,
                    state           |-> s.output.state,
                    stable_ms       |-> s.output.stable_ms,
                    turn_count      |-> window_len(s.window),
                    proof_available |-> is_some(s.last_proof) ]) ]

\* A call site that forgets the issued proof after every turn.
leaves_lock_Always(output_) == TRUE

\* output.state != FacelockState::Locked
leaves_lock(output_) == output_.state # "Locked"

\* The reset at the end of the handler
reset_on_unlock(s) ==
    IF leaves_lock(s.output)
    THEN [ s EXCEPT !.last_proof = None, !.proof_generated = FALSE ]
    ELSE s

\* The body of add_turn (api.rs) and of one round of run_duo (main.rs)
handle_turn(s, site, speaker, text, r_value, signals, t) ==
    reset_on_unlock(broadcast_update(issue(engine_update(
        aggregate(append_turn(s, site, speaker, text, r_value, t), signals), t))))

\* Time passes between two turns.
Pause ==
    /\ \E d \in SessionSteps :
          /\ now + d <= MaxSessionClock
          /\ now' = now + d
    /\ UNCHANGED <<engine, output, prev_state, bell, run_start, history>>
    /\ UNCHANGED proof_vars
    /\ UNCHANGED caller_vars
    /\ UNCHANGED site_vars

\* One turn handled by the call site `site`
TurnAt(site) ==
    /\ session.site \in { "none", site }
    /\ session.turns < MaxSessionTurns
    /\ \E speaker \in Speakers, text \in Texts, parsed \in SessionInputs :
          session' = handle_turn(session, site, speaker, text,
                                 parsed[1], parsed[2], now)
    /\ UNCHANGED <<hashing, requests, lock>>
    /\ UNCHANGED engine_vars
    /\ UNCHANGED proof_vars
    /\ UNCHANGED caller_vars

\* POST /session/:id/turn, the handler from lock to response
HttpAddTurn == TurnAt("http")

\* One line "A: ..." or "B: ..." read by run_duo
DuoTurn == TurnAt("duo")

---------------------------------------------------------------------------
(* Concurrent HTTP requests on one session, src/src/core/api.rs            *)

\* The requests in flight: two POST /session/:id/turn, one GET
\* /session/:id, one GET /session/:id/proof.
AddTurnRequests == { 1, 2 }
ReadRequests == { 3, 4 }

NoObservation ==
    [ turn_count |-> 0, update_count |-> 0, state |-> "Waiting",
      proof_available |-> FALSE ]

request_kind(q) ==
    CASE q \in AddTurnRequests -> "add_turn"
      [] q = 3 -> "get_session"
      [] q = 4 -> "get_proof"

\* The speaker of the request body: request 1 is A's turn, request 2 B's
request_speaker(q) == IF q = 1 THEN <<65>> ELSE <<66>>

InitRequests ==
    [ q \in AddTurnRequests \cup ReadRequests |->
        [ kind |-> request_kind(q), pc |-> "start", observed |-> NoObservation ] ]

\* tokio::sync::RwLock: no writer and no reader holds it
RwLock_new == [ writer |-> 0, readers |-> {} ]

\* A lock that lets every writer in.
write_free_Always(l) == TRUE

\* write().await returns once no writer and no reader holds the lock
write_free(l) == l.writer = 0 /\ l.readers = {}

\* read().await returns once no writer holds the lock
read_free(l) == l.writer = 0

\* The positions of add_turn between taking the lock and giving it back
in_body == { "locked", "appended", "aggregated", "updated", "issued" }

\* let mut sessions = state.sessions.write().await
AcquireWrite ==
    /\ \E q \in AddTurnRequests :
          /\ requests[q].pc = "start"
          /\ write_free(lock)
          /\ lock' = [ lock EXCEPT !.writer = q ]
          /\ requests' = [ requests EXCEPT ![q].pc = "locked" ]
    /\ UNCHANGED <<hashing, session>>
    /\ UNCHANGED engine_vars
    /\ UNCHANGED proof_vars
    /\ UNCHANGED caller_vars

\* r_parser.parse, Turn::new, session.window.add_turn(turn)
AppendTurn ==
    /\ \E q \in AddTurnRequests :
          /\ requests[q].pc = "locked"
          /\ session' = append_turn(session, "http", request_speaker(q),
                                    <<72, 105>>, F(5), now)
          /\ requests' = [ requests EXCEPT ![q].pc = "appended" ]
    /\ UNCHANGED <<hashing, lock>>
    /\ UNCHANGED engine_vars
    /\ UNCHANGED proof_vars
    /\ UNCHANGED caller_vars

\* session.dc_parser.calculate(&session.window)
Aggregate ==
    /\ \E q \in AddTurnRequests :
          /\ requests[q].pc = "appended"
          /\ session' = aggregate(session, DcSignals_zero)
          /\ requests' = [ requests EXCEPT ![q].pc = "aggregated" ]
    /\ UNCHANGED <<hashing, lock>>
    /\ UNCHANGED engine_vars
    /\ UNCHANGED proof_vars
    /\ UNCHANGED caller_vars

\* session.engine.update(effective_r)
EngineUpdate ==
    /\ \E q \in AddTurnRequests :
          /\ requests[q].pc = "aggregated"
          /\ session' = engine_update(session, now)
          /\ requests' = [ requests EXCEPT ![q].pc = "updated" ]
    /\ UNCHANGED <<hashing, lock>>
    /\ UNCHANGED engine_vars
    /\ UNCHANGED proof_vars
    /\ UNCHANGED caller_vars

\* The issuance block: generate and session.last_proof = Some(..), then
\* the SessionUpdate is sent.
IssueAndStore ==
    /\ \E q \in AddTurnRequests :
          /\ requests[q].pc = "updated"
          /\ session' = broadcast_update(issue(session))
          /\ requests' = [ requests EXCEPT ![q].pc = "issued" ]
    /\ UNCHANGED <<hashing, lock>>
    /\ UNCHANGED engine_vars
    /\ UNCHANGED proof_vars
    /\ UNCHANGED caller_vars

\* The reset, then the response: the guard `sessions` is dropped.
ResetAndRelease ==
    /\ \E q \in AddTurnRequests :
          /\ requests[q].pc = "issued"
          /\ session' = reset_on_unlock(session)
          /\ lock' = [ lock EXCEPT !.writer = IF @ = q THEN 0 ELSE @ ]
          /\ requests' = [ requests EXCEPT ![q].pc = "done" ]
    /\ UNCHANGED hashing
    /\ UNCHANGED engine_vars
    /\ UNCHANGED proof_vars
    /\ UNCHANGED caller_vars

\* let sessions = state.sessions.read().await
AcquireRead ==
    /\ \E q \in ReadRequests :
          /\ requests[q].pc = "start"
          /\ read_free(lock)
          /\ lock' = [ lock EXCEPT !.readers = @ \cup { q } ]
          /\ requests' = [ requests EXCEPT ![q].pc = "reading" ]
    /\ UNCHANGED <<hashing, session>>
    /\ UNCHANGED engine_vars
    /\ UNCHANGED proof_vars
    /\ UNCHANGED caller_vars

\* What get_session and get_proof read of the session
observe(s) ==
    [ turn_count      |-> window_len(s.window),
      update_count    |-> s.engine.update_count,
      state           |-> s.engine.state,
      proof_available |-> is_some(s.last_proof) ]

\* The handler reads the session and builds its response.
Observe ==
    /\ \E q \in ReadRequests :
          /\ requests[q].pc = "reading"
          /\ requests' = [ requests EXCEPT ![q].pc = "observed",
                                           ![q].observed = observe(session) ]
    /\ UNCHANGED <<hashing, session, lock>>
    /\ UNCHANGED engine_vars
    /\ UNCHANGED proof_vars
    /\ UNCHANGED caller_vars

\* The response is returned: the read guard is dropped.
ReleaseRead ==
    /\ \E q \in ReadRequests :
          /\ requests[q].pc = "observed"
          /\ lock' = [ lock EXCEPT !.readers = @ \ { q } ]
          /\ requests' = [ requests EXCEPT ![q].pc = "done" ]
    /\ UNCHANGED <<hashing, session>>
    /\ UNCHANGED engine_vars
    /\ UNCHANGED proof_vars
    /\ UNCHANGED caller_vars

InitSite ==
    /\ hashing = NoHash
    /\ session = Session_new
    /\ requests = InitRequests
    /\ lock = RwLock_new

---------------------------------------------------------------------------
(* Specifications                                                          *)

Init == InitEngine /\ InitProof /\ InitWindow /\ InitCodec /\ InitSite

\* The engine under every sequence of updates and clock readings.
Next == Tick \/ Update

Spec == Init /\ [][Next]_vars

\* The window, the proof generator and the verifier.
NextProof ==
    AddTurn \/ CanGenerate \/ Generate \/ Verify \/ TamperVerify \/ ResignVerify

SpecProof == Init /\ [][NextProof]_vars

\* The window under adds spread over time, by a caller that may create a
\* turn before it adds it.
NextWindow == Elapse \/ HoldTurn \/ AddNewTurn \/ AddHeldTurn

SpecWindow == Init /\ [][NextWindow]_vars

\* The encoders and decoders of proofs.
NextCodec == RoundTrip \/ FromHexFill \/ FromHexEdited

SpecCodec == Init /\ [][NextCodec]_vars

\* The queries on every window of a few turns.
NextQuery ==
    Elapse \/ AddNewTurn \/ Queries \/ PairedTurns \/ Calculate \/ Success

SpecQuery == Init /\ [][NextQuery]_vars

\* The window under long runs of adds, with or without a pause.
NextBurst == Elapse \/ AddTurnBurst

SpecBurst == Init /\ [][NextBurst]_vars

\* Content hashes of windows and of pair slices the caller builds.
NextHash == HashSameContent \/ HashChangedText \/ HashPairs

SpecHash == Init /\ [][NextHash]_vars

\* A session served by one of the two call sites, with pauses.
NextSession == Pause \/ HttpAddTurn \/ DuoTurn

SpecSession == Init /\ [][NextSession]_vars

\* Four requests on one session, served concurrently.
NextHttp ==
    \/ Pause
    \/ AcquireWrite \/ AppendTurn \/ Aggregate \/ EngineUpdate
    \/ IssueAndStore \/ ResetAndRelease
    \/ AcquireRead \/ Observe \/ ReleaseRead

SpecHttp == Init /\ [][NextHttp]_vars

\* An engine whose scalars settle below 0.15 while updates keep arriving.
NextLive == TickBefore \/ UpdateBefore \/ CalmRound

SpecLive == Init /\ [][NextLive]_vars /\ WF_vars(CalmRound)

---------------------------------------------------------------------------
(* Claims about the engine.  "updated" says that update has been called,   *)
(* so that output and prev_state describe a real call.                     *)

updated == engine.update_count > 0

Edges ==
    { <<"Waiting", "Approaching">>, <<"Approaching", "Locked">>,
      <<"Approaching", "Drift">>, <<"Locked", "Drift">>,
      <<"Drift", "Approaching">> }

C2_LockedIffStable ==
    (updated /\ prev_state = "Approaching") =>
        /\ (engine.state = "Locked") <=>
              (f64_lt(output.r, F(R_THRESHOLD_LOCKED))
                  /\ output.stable_ms >= STABILITY_DURATION_MS)
        /\ (f64_lt(output.r, F(R_THRESHOLD_LOCKED))
               /\ output.stable_ms < STABILITY_DURATION_MS)
              => engine.state = "Approaching"

C2_Witness ==
    /\ updated
    /\ prev_state = "Approaching"
    /\ engine.state = "Approaching"
    /\ f64_lt(output.r, F(R_THRESHOLD_LOCKED))
    /\ output.stable_ms = STABILITY_DURATION_MS - 1

\* C3: from Locked, one update with r >= 0.15 (0.15 included) results in
\* Drift in that same update whatever the stable duration; with r < 0.15
\* the state stays Locked.
C3_LockedToDriftImmediate ==
    (updated /\ prev_state = "Locked") =>
        /\ f64_ge(output.r, F(R_THRESHOLD_LOCKED)) => engine.state = "Drift"
        /\ f64_lt(output.r, F(R_THRESHOLD_LOCKED)) => engine.state = "Locked"

C3_Witness ==
    /\ updated
    /\ prev_state = "Locked"
    /\ engine.state = "Drift"
    /\ output.r = F(R_THRESHOLD_LOCKED)

\* C4: in every reachable engine state, an update with r < 0.15 whose
\* lock-candidate timer has accumulated >= 8000 ms at that update leaves
\* the engine Locked.
C4_StableUpdateLocks ==
    (updated /\ f64_lt(output.r, F(R_THRESHOLD_LOCKED))
             /\ output.stable_ms >= STABILITY_DURATION_MS)
        => engine.state = "Locked"

C4_Witness ==
    /\ updated
    /\ prev_state = "Approaching"
    /\ engine.state = "Locked"
    /\ f64_lt(output.r, F(R_THRESHOLD_LOCKED))
    /\ output.stable_ms = STABILITY_DURATION_MS

C6_ApproachingDriftOrStay ==
    (updated /\ prev_state = "Approaching") =>
        /\ f64_ge(output.r, F(R_THRESHOLD_DRIFT)) => engine.state = "Drift"
        /\ (f64_ge(output.r, F(R_THRESHOLD_LOCKED))
               /\ f64_lt(output.r, F(R_THRESHOLD_DRIFT)))
              => (engine.state = "Approaching"
                     /\ is_none(engine.lock_candidate_since)
                     /\ output.stable_ms = 0)

C6_Witness ==
    /\ updated
    /\ prev_state = "Approaching"
    /\ engine.state = "Drift"
    /\ output.r = F(R_THRESHOLD_DRIFT)

\* C7: the stable duration reported by update is the time elapsed since the
\* first update of the current maximal run of consecutive updates with
\* r < 0.15 (later updates of the run do not restart it), and 0 for every
\* update with r >= 0.15, in whatever state.
C7_StableDurationIsRunLength ==
    updated =>
        /\ is_some(run_start)
              => output.stable_ms = engine.last_input - unwrap(run_start)
        /\ f64_ge(output.r, F(R_THRESHOLD_LOCKED)) => output.stable_ms = 0
        /\ is_some(run_start) <=> f64_lt(output.r, F(R_THRESHOLD_LOCKED))

C7_Witness ==
    /\ updated
    /\ is_some(run_start)
    /\ output.stable_ms > STABILITY_DURATION_MS
    /\ engine.last_input - unwrap(engine.first_input) > output.stable_ms

---------------------------------------------------------------------------
(* Claims about the proof generator and the verifier                       *)

\* No two adjacent turns of the window have different speakers.
NoAdjacentSpeakerChange(w) ==
    \A i \in 1..(Len(w.turns) - 1) : w.turns[i].speaker = w.turns[i + 1].speaker

SecondsBelowMinimum(secs) == f64_lt(secs, F(LOCKED_MIN_DURATION_SECS))

\* C8: can_generate reports the first failing condition in the order
\* state != Locked (R204, even when the others fail too), sustained seconds
\* < 8.0 (R201), unknown aggregator result (R202), zero pairs (R203), and
\* Ok when none fails.
C8_DenialPriority ==
    call.op = "can_generate" =>
        /\ call.state # "Locked" => call.reason = "R204_PROOF_NOT_LOCKED"
        /\ (call.state = "Locked" /\ SecondsBelowMinimum(call.locked_duration_secs))
              => call.reason = "R201_PROOF_NOT_STABLE"
        /\ (call.state = "Locked" /\ ~SecondsBelowMinimum(call.locked_duration_secs)
               /\ is_none(call.dc_result.value))
              => call.reason = "R202_PROOF_DC_UNKNOWN"
        /\ (call.state = "Locked" /\ ~SecondsBelowMinimum(call.locked_duration_secs)
               /\ is_some(call.dc_result.value)
               /\ NoAdjacentSpeakerChange(call.window))
              => call.reason = "R203_PROOF_WINDOW_EMPTY"
        /\ (call.state = "Locked" /\ ~SecondsBelowMinimum(call.locked_duration_secs)
               /\ is_some(call.dc_result.value)
               /\ ~NoAdjacentSpeakerChange(call.window))
              => call.reason = "Ok"

C8_Witness ==
    /\ call.op = "can_generate"
    /\ call.state = "Locked"
    /\ ~SecondsBelowMinimum(call.locked_duration_secs)
    /\ is_some(call.dc_result.value)
    /\ Len(call.window.turns) = 2
    /\ NoAdjacentSpeakerChange(call.window)
    /\ call.reason = "R203_PROOF_WINDOW_EMPTY"

\* C9: generate returns a proof exactly when can_generate on the same
\* arguments returns Ok, and otherwise that denial reason and no proof (a
\* proof is present iff the reason is R200_PROOF_GENERATED); with state
\* Locked, a known aggregator result and at least one pair it succeeds
\* exactly when the sustained seconds are >= 8.0.
C9_GenerateIffPolicyAndStable ==
    call.op = "generate" =>
        LET policy == can_generate(generator, call.state, call.locked_duration_secs, call.dc_result, call.window)
        IN  /\ is_some(call.proof) <=> policy = "Ok"
            /\ is_some(call.proof) <=> call.reason = "R200_PROOF_GENERATED"
            /\ policy # "Ok" => call.reason = policy
            /\ (call.state = "Locked" /\ is_some(call.dc_result.value)
                   /\ ~NoAdjacentSpeakerChange(call.window))
                  => (is_some(call.proof)
                         <=> f64_ge(call.locked_duration_secs, F(LOCKED_MIN_DURATION_SECS)))

\* C10: after any single byte of the 184-byte payload part of an issued
\* proof's serialization has been changed, the decoded proof does not
\* verify under the matching verify function.
C10_AnyPayloadByteFlipDetected ==
    (tamper.kind = "flip" /\ tamper.index < PAYLOAD_BYTES) => ~tamper.verified

---------------------------------------------------------------------------
(* Claims about verification                                               *)

\* The two checks of verify_proof, each on its own.
signature_check(proof) ==
    verify_call("mock_verify", ProofPayload_to_bytes(proof.payload),
                proof.signature, proof.payload.node_pubkey)

hash_check(proof) ==
    sha256(slice(ProofPayload_to_bytes(proof.payload), 0, HASHED_PREFIX))
        = proof.payload.payload_hash

\* C11: every proof a successful generate(.., sign_fn) returns verifies:
\* verify_proof is true on that unmodified proof with the verify function
\* that accepts exactly the signatures sign_fn produces.
C11_IssuedProofVerifies ==
    tamper.kind = "verify" => tamper.verified

C11_Witness ==
    /\ tamper.kind = "verify"
    /\ call.reason = "R200_PROOF_GENERATED"
    /\ call.locked_duration_secs = F(LOCKED_MIN_DURATION_SECS)
    /\ tamper.verified

\* C12: verify_proof returns true if and only if the self-hash recomputed
\* over the payload bytes before the self-hash field equals the stored
\* payload_hash and verify_fn accepts (payload bytes, signature, public key);
\* either check failing alone gives false.
C12_VerifyIffBothChecks ==
    tamper.done =>
        LET proof == presented_proof(unwrap(call.proof), tamper)
        IN  tamper.verified <=> (hash_check(proof) /\ signature_check(proof))

\* The signature is good and only the self-hash is wrong.
C12_Witness ==
    /\ tamper.kind = "resign"
    /\ signature_check(presented_proof(unwrap(call.proof), tamper))
    /\ ~hash_check(presented_proof(unwrap(call.proof), tamper))
    /\ ~tamper.verified

\* The serialization of the nine payload fields other than payload_hash.
fields_before_hash(payload) ==
    to_be_bytes(payload.version)
    \o payload.session_id
    \o f64_to_be_bytes(payload.r_final)
    \o f64_to_be_bytes(payload.dc_final)
    \o to_be_bytes(payload.lock_duration_secs)
    \o to_be_bytes(payload.window_start_unix)
    \o to_be_bytes(payload.paired_turn_count)
    \o payload.conversation_hash
    \o payload.node_pubkey

\* C13: the self-hash covers every payload field except itself: bytes 0..118
\* of an issued proof's payload, the range generate and verify_proof hash,
\* are the full serialization of version, session_id, r_final, dc_final,
\* lock_duration_secs, window_start_unix, paired_turn_count,
\* conversation_hash and node_pubkey; payload_hash lies wholly after them.
\* So a changed byte of those fields changes the recomputed hash even when
\* the payload is signed again, and a changed byte of payload_hash does not.
C13_SelfHashCoversAllButItself ==
    is_some(call.proof) =>
        LET payload == unwrap(call.proof).payload
            bytes   == ProofPayload_to_bytes(payload)
            hashed  == slice(bytes, 0, HASHED_PREFIX)
        IN  /\ hashed = fields_before_hash(payload)
            /\ slice(bytes, HASHED_PREFIX, HASHED_PREFIX + 32) = payload.payload_hash
            /\ payload.payload_hash = sha256(hashed)
            /\ tamper.kind = "resign" =>
                  LET seen == presented_proof(unwrap(call.proof), tamper).payload
                      rehashed == sha256(slice(ProofPayload_to_bytes(seen), 0, HASHED_PREFIX))
                  IN  IF tamper.index < HASHED_PREFIX
                      THEN rehashed # payload.payload_hash /\ ~tamper.verified
                      ELSE rehashed = payload.payload_hash

\* The last byte of node_pubkey was changed and the payload signed again.
C13_Witness ==
    /\ tamper.kind = "resign"
    /\ tamper.index = HASHED_PREFIX - 1
    /\ signature_check(presented_proof(unwrap(call.proof), tamper))
    /\ ~tamper.verified

---------------------------------------------------------------------------
(* Claims about the window                                                 *)

\* The turns add_turn pruned in the last call: the old ones and the new one.
offered == Append(added.before, unwrap(added.turn))

\* The turns of q that pass `keep`, in order.
kept_turns(q, keep) ==
    LET RECURSIVE go(_)
        go(i) ==
            IF i > Len(q) THEN <<>>
            ELSE IF i \in keep THEN <<q[i]>> \o go(i + 1) ELSE go(i + 1)
    IN  go(1)

\* The indices of q that are among the newest n of their speaker.
newest_of_speaker(q, n) ==
    { i \in 1..Len(q) :
        Cardinality({ j \in (i + 1)..Len(q) : q[j].speaker = q[i].speaker }) < n }

age_at(turn, t) == t - unwrap(turn.timestamp)

\* C14: after every add_turn no speaker has more than 10 turns in the
\* window; when the cap is exceeded the turns removed are the oldest of
\* that speaker, and the turn just appended is never removed by the cap.
C14_SpeakerCapKeepsNewest ==
    added.count > 0 =>
        LET aged == prune_by_age(offered, window.window_duration, added.at)
        IN  /\ \A sp \in Speakers :
                  Cardinality({ i \in 1..Len(window.turns) :
                                  window.turns[i].speaker = sp })
                      <= MAX_TURNS_PER_SPEAKER
            /\ window.turns = kept_turns(aged, newest_of_speaker(aged, MAX_TURNS_PER_SPEAKER))
            /\ aged # <<>> => window.turns[Len(window.turns)] = unwrap(added.turn)

\* An eleventh turn of A arrives while an older turn of B leads the window:
\* the oldest A goes, B stays.
C14_Witness ==
    /\ Len(added.before) = MAX_TURNS_PER_SPEAKER + 1
    /\ added.before[1].speaker = <<66>>
    /\ \A i \in 2..Len(added.before) : added.before[i].speaker = <<65>>
    /\ unwrap(added.turn).speaker = <<65>>
    /\ Len(window.turns) = MAX_TURNS_PER_SPEAKER + 1
    /\ window.turns[1].speaker = <<66>>

\* C15: after every add_turn no turn held by the window is older than the
\* window horizon (30 s) measured at the moment of that add, and a turn aged
\* exactly the horizon is retained (eviction is strictly "older than").
C15_NoTurnOlderThanHorizon ==
    added.count > 0 =>
        /\ \A i \in 1..Len(window.turns) :
              age_at(window.turns[i], added.at) <= window.window_duration
        /\ Cardinality({ i \in 1..Len(window.turns) :
                           age_at(window.turns[i], added.at) = window.window_duration })
              = Cardinality({ i \in 1..Len(offered) :
                                age_at(offered[i], added.at) = window.window_duration })

---------------------------------------------------------------------------
(* Claims about the queries                                                *)

\* The places i of turns where turn i and turn i + 1 differ in speaker.
speaker_changes(turns) ==
    { i \in 1..(Len(turns) - 1) : turns[i].speaker # turns[i + 1].speaker }

\* The k-th smallest member of a set of numbers.
kth(S, k) == CHOOSE i \in S : Cardinality({ j \in S : j < i }) = k - 1

\* C16: paired_turns returns, in window order, exactly the adjacent pairs
\* (i, i+1) whose speakers differ: as many as there are adjacent speaker
\* changes, a same-speaker adjacency being skipped without stopping the scan
\* (A,A,B gives the one pair (second A, B)); it is empty for a window of
\* fewer than 2 turns or of one speaker.
C16_PairsAreSpeakerChanges ==
    call.op = "paired_turns" =>
        LET turns   == call.window.turns
            changes == speaker_changes(turns)
        IN  /\ Len(call.pairs) = Cardinality(changes)
            /\ \A k \in 1..Len(call.pairs) :
                  /\ call.pairs[k].first = turns[kth(changes, k)]
                  /\ call.pairs[k].second = turns[kth(changes, k) + 1]
            /\ (Len(turns) < 2 \/ speaker_count(call.window) < 2)
                  => call.pairs = <<>>

\* A, a pause, A, B: the one pair is (second A, B).
C16_Witness ==
    /\ call.op = "paired_turns"
    /\ Len(call.window.turns) = 3
    /\ call.window.turns[1].speaker = <<65>>
    /\ call.window.turns[2].speaker = <<65>>
    /\ call.window.turns[3].speaker = <<66>>
    /\ call.window.turns[1] # call.window.turns[2]
    /\ call.pairs = <<[ first |-> call.window.turns[2], second |-> call.window.turns[3] ]>>

\* C17: calculate checks its preconditions in a fixed order and returns
\* unknown at the first failure: fewer than 2 turns gives INSUFFICIENT_TURNS
\* (also with a single speaker); 2 or more turns of exactly one speaker give
\* SINGLE_SPEAKER; NO_PAIRS is returned only when both earlier checks pass
\* and there are no pairs.
C17_UnknownInFixedOrder ==
    call.op = "calculate" =>
        LET w == call.window
        IN  /\ Len(w.turns) < 2 =>
                  call.dc_result = DcResult_unknown("R012_DC_UNKNOWN_INSUFFICIENT_TURNS")
            /\ (Len(w.turns) >= 2 /\ speaker_count(w) = 1) =>
                  call.dc_result = DcResult_unknown("R011_DC_UNKNOWN_SINGLE_SPEAKER")
            /\ call.dc_result.reason = "R016_DC_UNKNOWN_NO_PAIRS" =>
                  (Len(w.turns) >= 2 /\ speaker_count(w) >= 2
                      /\ speaker_changes(w.turns) = {})

\* One turn, hence one speaker: the answer is INSUFFICIENT_TURNS.
C17_Witness ==
    /\ call.op = "calculate"
    /\ Len(call.window.turns) = 1
    /\ speaker_count(call.window) = 1
    /\ call.dc_result.reason = "R012_DC_UNKNOWN_INSUFFICIENT_TURNS"

UnknownReasons ==
    { "R011_DC_UNKNOWN_SINGLE_SPEAKER", "R012_DC_UNKNOWN_INSUFFICIENT_TURNS",
      "R016_DC_UNKNOWN_NO_PAIRS", "R013_DC_UNKNOWN_TIMEOUT" }

---------------------------------------------------------------------------
(* Claims about the encodings.  Scalars are compared by what they are      *)
(* (a NaN is the NaN it was), as the bytes carry them.                     *)

\* C19: the binary and the hex encoding round-trip: for every proof p,
\* from_bytes(p.to_bytes()) and from_hex(p.to_hex()) equal p in all ten
\* payload fields and the signature; to_bytes is always 248 bytes and
\* to_hex always 496 characters.
C19_EncodingsRoundTrip ==
    codec.op = "round_trip" =>
        LET p == unwrap(codec.proof)
        IN  /\ Len(codec.bytes) = PROOF_SIZE
            /\ Len(codec.hex) = HEX_LEN
            /\ unwrap(codec.decoded).payload = p.payload
            /\ unwrap(codec.decoded).signature = p.signature
            /\ is_some(codec.parsed)
            /\ unwrap(codec.parsed).payload = p.payload
            /\ unwrap(codec.parsed).signature = p.signature

C19_Witness ==
    /\ codec.op = "round_trip"
    /\ is_nan(unwrap(codec.proof).payload.r_final)
    /\ unwrap(codec.proof).payload.version = uint(65535, 2)
    /\ unwrap(codec.proof).signature = bytes_of(64, 255)
    /\ is_some(codec.parsed)
    /\ unwrap(codec.parsed).signature = bytes_of(64, 255)

\* 496 characters, each a digit or one of 'a'..'f'
is_lowercase_hex(hex) ==
    /\ Len(hex) = HEX_LEN
    /\ \A i \in 1..Len(hex) :
          (hex[i] >= 48 /\ hex[i] <= 57) \/ (hex[i] >= 97 /\ hex[i] <= 102)

\* C20: the hex encoding is exact in the decode direction too: for every
\* string h that from_hex accepts, from_hex(h).to_hex() = h, and only
\* 496-character lowercase-hex strings are accepted.
C20_DecodeThenEncodeIsExact ==
    (codec.op = "from_hex" /\ is_some(codec.parsed)) =>
        /\ Proof_to_hex(unwrap(codec.parsed)) = codec.hex
        /\ is_lowercase_hex(codec.hex)

\* 496 characters, each a hexadecimal digit of either case
is_hex(hex) ==
    /\ Len(hex) = HEX_LEN
    /\ \A i \in 1..Len(hex) : is_some(to_digit(hex[i]))

\* C21: from_hex returns None for every input that is not 496 characters of
\* hexadecimal digits: a wrong length (shorter, longer, empty), any non-hex
\* character, or non-ASCII text of byte length 496.
C21_MalformedHexRejected ==
    (codec.op = "from_hex" /\ ~is_hex(codec.hex)) => is_none(codec.parsed)

\* Turn i of the window is one of the two turns of some pair.
in_a_pair(self, i) ==
    \/ i > 1 /\ self.turns[i - 1].speaker # self.turns[i].speaker
    \/ i < Len(self.turns) /\ self.turns[i].speaker # self.turns[i + 1].speaker

\* C22 (as the code has it): two windows with identical (speaker, text)
\* turn sequences give identical content hashes, and changing a single
\* character of the text of a turn that belongs to a pair gives a
\* different content hash.
C22_HashDeterministicAndPairSensitive ==
    /\ hashing.op = "same" => hashing.first_hash = hashing.second_hash
    /\ (hashing.op = "changed" /\ in_a_pair(hashing.first, hashing.changed))
          => hashing.first_hash # hashing.second_hash

C22_Witness ==
    /\ hashing.op = "changed"
    /\ Len(hashing.first.turns) = MaxContent
    /\ hashing.changed = 2
    /\ in_a_pair(hashing.first, hashing.changed)
    /\ hashing.first_hash # hashing.second_hash

\* C22 as stated: changing a single character of the text of any turn in
\* the window gives a different content hash.
C22_AnyTurnTextChangesHash ==
    hashing.op = "changed" => hashing.first_hash # hashing.second_hash

\* C23: the byte string fed to the content hash is an injective encoding of
\* the pair sequence: two distinct sequences of pairs, of arbitrary strings
\* (the separator byte 0x00 included), never give the same byte string.
C23_StreamIsInjective ==
    (hashing.op = "pairs" /\ hashing.first_pairs # hashing.second_pairs)
        => hashed_stream(hashing.first_pairs) # hashed_stream(hashing.second_pairs)

\* The arguments of the last call satisfy the four preconditions.
preconditions_satisfied ==
    /\ call.state = "Locked"
    /\ ~f64_lt(call.locked_duration_secs, F(LOCKED_MIN_DURATION_SECS))
    /\ DcResult_is_known(call.dc_result)
    /\ paired_turns(call.window) # <<>>

\* C24: the core does not deduplicate issuance.  A call of generate or
\* can_generate leaves the window and the engine as they were; every
\* generate whose preconditions are satisfied succeeds, the one that
\* follows a successful generate included, and its proof verifies and
\* carries the content hash of the window as it is at that call.
C24_NoDeduplication ==
    /\ [][call' # call => (window' = window /\ engine' = engine)]_vars
    /\ [][call' # call => call'.window = window]_vars
    /\ []((call.op = "generate" /\ preconditions_satisfied)
            => /\ is_some(call.proof)
               /\ verify_proof(unwrap(call.proof), "mock_verify")
               /\ unwrap(call.proof).payload.conversation_hash
                    = sha256(hashed_stream(paired_turns(call.window))))

C24_Witness ==
    /\ call.op = "generate"
    /\ call.repeated
    /\ is_some(call.proof)
    /\ verify_proof(unwrap(call.proof), "mock_verify")

\* The turns the last add_turn left in the window.
left_by_last_add ==
    IF added.count = 0 THEN <<>>
    ELSE prune(Append(added.before, unwrap(added.turn)),
               WINDOW_DURATION_SECS * 1000, added.at)

\* C25: expiry is pull-based.  No query and no passage of time changes the
\* window: it holds what the last add_turn left, and len, speaker_count,
\* turns and paired_turns (and calculate) answer from all of these turns,
\* the ones older than the horizon included.
C25_ExpiryIsPullBased ==
    /\ [](window.turns = left_by_last_add)
    /\ [][(call' # call \/ now' # now) => window' = window]_vars
    /\ [](call.op = "queries" =>
            /\ call.len = Len(call.window.turns)
            /\ call.turns = call.window.turns
            /\ call.speaker_count
                 = Cardinality({ call.window.turns[i].speaker :
                                   i \in 1..Len(call.window.turns) }))
    /\ [](call.op = "paired_turns" =>
            Len(call.pairs) = Cardinality(speaker_changes(call.window.turns)))
    /\ [](call.op = "calculate" =>
            /\ DcResult_is_known(call.dc_result)
                 <=> speaker_changes(call.window.turns) # {}
            /\ call.dc_result.pair_count
                 = Cardinality(speaker_changes(call.window.turns)))

\* Two turns stamped 0 are still counted 30.001 s later.
C25_Witness ==
    /\ call.op = "queries"
    /\ call.at = WINDOW_DURATION_SECS * 1000 + 1
    /\ now = call.at
    /\ call.window = window
    /\ call.len = 2
    /\ call.speaker_count = 2
    /\ \A i \in 1..2 : call.at - unwrap(call.turns[i].timestamp) > window.window_duration

\* C26: the terminal bell is printed by the update that changes the state
\* to Locked and by no other update; an update that keeps the engine Locked
\* does not ring.
C26_BellOncePerLockEntry ==
    updated => (bell <=> (engine.state = "Locked" /\ prev_state # "Locked"))

\* A second update in Locked, silent.
C26_Witness ==
    /\ updated
    /\ prev_state = "Locked"
    /\ engine.state = "Locked"
    /\ ~bell

\* C28: on success, generate returns a proof whose payload has version 1,
\* the given session_id, r_final the given final scalar, dc_final the
\* aggregator value, lock_duration_secs the sustained seconds truncated to
\* whole seconds (12.5 gives 12), paired_turn_count the number of pairs of
\* the window at the call, conversation_hash the hash of those pairs,
\* node_pubkey the generator's key, and whose signature is sign_fn of the
\* full serialized payload, self-hash included.
C28_PayloadFieldsOnSuccess ==
    (call.op = "generate" /\ is_some(call.proof)) =>
        LET proof   == unwrap(call.proof)
            payload == proof.payload
            secs    == call.locked_duration_secs
            changes == speaker_changes(call.window.turns)
        IN  /\ payload.version = uint(1, 2)
            /\ payload.session_id = session_id_0
            /\ payload.r_final = call.r_final
            /\ payload.dc_final = unwrap(call.dc_result.value)
            /\ ~is_nan(secs) =>
                   \E n \in 0..20 :
                      /\ n * 100 <= secs[1] /\ secs[1] < (n + 1) * 100
                      /\ payload.lock_duration_secs = uint(n, 8)
            /\ payload.paired_turn_count = uint(Cardinality(changes), 4)
            /\ payload.conversation_hash
                 = sha256(hashed_stream(paired_turns(call.window)))
            /\ payload.node_pubkey = generator.node_pubkey
            /\ payload.payload_hash # zeros(32)
            /\ proof.signature = mock_sign(ProofPayload_to_bytes(payload))

\* 12.5 sustained seconds are written as 12.
C28_Witness ==
    /\ call.op = "generate"
    /\ is_some(call.proof)
    /\ call.locked_duration_secs = F(1250)
    /\ unwrap(call.proof).payload.lock_duration_secs = uint(12, 8)
    /\ unwrap(call.proof).payload.paired_turn_count = uint(1, 4)

\* The place of a turn in the order of the calls (its scalar).
added_as(turn) == turn.r[1]

\* The front entries the age loop pops: every entry up to i is too old.
aged_out_front(q, duration, t) ==
    { i \in 1..Len(q) : \A j \in 1..i : t - unwrap(q[j].timestamp) > duration }

\* The entries past the cap among those the age loop left.
over_cap(q, gone) ==
    { i \in (1..Len(q)) \ gone :
        Cardinality({ j \in (i..Len(q)) \ gone : q[j].speaker = q[i].speaker })
            > MAX_TURNS_PER_SPEAKER }

\* C29: the window keeps insertion order through every eviction: after any
\* sequence of add_turn calls the surviving turns stand in the order in
\* which they were added, and prune has removed exactly the marked entries
\* (the aged-out front entries and the over-cap entries) and no others.
C29_InsertionOrderKept ==
    /\ \A i \in 1..Len(window.turns) : \A j \in (i + 1)..Len(window.turns) :
          added_as(window.turns[i]) < added_as(window.turns[j])
    /\ added.count > 0 =>
          LET aged   == aged_out_front(offered, window.window_duration, added.at)
              marked == aged \cup over_cap(offered, aged)
          IN  window.turns = kept_turns(offered, (1..Len(offered)) \ marked)

\* The eleventh turn of one speaker: the first one added is gone, the
\* others stand as added.
C29_Witness ==
    /\ added.count = MAX_TURNS_PER_SPEAKER + 1
    /\ Len(added.before) = MAX_TURNS_PER_SPEAKER
    /\ Len(window.turns) = MAX_TURNS_PER_SPEAKER
    /\ added_as(window.turns[1]) = 2
    /\ added_as(window.turns[MAX_TURNS_PER_SPEAKER]) = MAX_TURNS_PER_SPEAKER + 1

\* C27: at the session call sites (HTTP add_turn and the duo loop) at
\* most one proof is issued per lock episode: a handler that issues a proof
\* is either the first to issue for the session, or runs after an engine
\* update whose resulting state was not Locked since the last issuance.
C27_OneProofPerLockEpisode ==
    [][(session'.turns # session.turns /\ session'.issued)
          => session.since_issue # "locked"]_vars

\* A second proof of one session, after the engine left Locked and locked
\* again.
C27_Witness ==
    /\ session.issued
    /\ session.proofs = 2
    /\ session.site = "http"
    /\ session.since_issue = "locked"
    /\ session.engine.state = "Locked"
    /\ now = MaxSessionClock

\* The add_turn requests that are between taking the lock and giving it
\* back.
inside == { q \in AddTurnRequests : requests[q].pc \in in_body }

\* C30: in the HTTP layer the mutations of one session are serialized.
\* add_turn holds the sessions write lock from before its append to after
\* its reset, so two add_turn requests are never inside that sequence
\* together, no reader holds the lock meanwhile, and what get_session or
\* get_proof has read never shows a window with a turn the engine has not
\* been updated with.
C30_MutationsSerialized ==
    /\ Cardinality(inside) <= 1
    /\ \A q \in inside : lock.writer = q /\ lock.readers = {}
    /\ \A q \in ReadRequests :
          /\ requests[q].pc = "reading"
                => window_len(session.window) = session.engine.update_count
          /\ requests[q].observed.turn_count = requests[q].observed.update_count

\* The second add_turn has appended its turn and not yet updated the
\* engine; one reader has read the session before it, the other waits.
C30_Witness ==
    /\ requests[1].pc = "done"
    /\ requests[2].pc = "appended"
    /\ window_len(session.window) = 2
    /\ session.engine.update_count = 1
    /\ requests[3].pc = "done"
    /\ requests[3].observed.turn_count = 1
    /\ requests[4].pc = "start"

---------------------------------------------------------------------------
(* Claims that follow from the code without being stated by it             *)

\* C31: whenever the engine is Locked after an update, all scalars so far
\* being numbers, the last scalar is below 0.15, the lock-candidate timer
\* is running and the reported stable duration is at least 8000 ms, so
\* that the output passes the stability gate of can_generate.
C31_LockedPassesStabilityGate ==
    (updated /\ engine.state = "Locked" /\ ~history.nan_seen) =>
        /\ f64_lt(engine.last_r, F(R_THRESHOLD_LOCKED))
        /\ is_some(engine.lock_candidate_since)
        /\ output.state = "Locked"
        /\ output.stable_ms >= STABILITY_DURATION_MS
        /\ ~f64_lt(stable_secs(output.stable_ms), F(LOCKED_MIN_DURATION_SECS))

\* An update that keeps the lock, more than 8 s into the run.
C31_Witness ==
    /\ updated
    /\ ~history.nan_seen
    /\ prev_state = "Locked"
    /\ engine.state = "Locked"
    /\ output.stable_ms > STABILITY_DURATION_MS

\* C32: after any update that leaves the engine in Waiting or Drift the
\* lock-candidate timer is not running and the reported stable duration is
\* 0; a non-zero stable duration is reported only together with state
\* Approaching or Locked.
C32_StableOnlyWhenApproachingOrLocked ==
    updated =>
        /\ engine.state \in {"Waiting", "Drift"}
              => /\ is_none(engine.lock_candidate_since)
                 /\ output.stable_ms = 0
        /\ output.stable_ms # 0 => output.state \in {"Approaching", "Locked"}

\* Drift kept by a scalar of 0.25 or more after a lock was lost.
C32_Witness ==
    /\ updated
    /\ prev_state = "Drift"
    /\ engine.state = "Drift"
    /\ is_some(history.lost_lock)
    /\ output.stable_ms = 0

\* The last update changed the state to Locked.
entered_locked == updated /\ engine.state = "Locked" /\ prev_state # "Locked"

\* C33: every transition into Locked happens at least 8000 ms after the
\* most recent update with scalar >= 0.15 and at least 8000 ms after the
\* first update of the engine: never on the first update, and never less
\* than 8000 ms after Locked was lost.
C33_LockNeedsEightSeconds ==
    entered_locked =>
        /\ is_some(history.last_high)
              => engine.last_input - unwrap(history.last_high) >= STABILITY_DURATION_MS
        /\ engine.last_input - unwrap(engine.first_input) >= STABILITY_DURATION_MS
        /\ engine.update_count > 1
        /\ is_some(history.lost_lock)
              => engine.last_input - unwrap(history.lost_lock) >= STABILITY_DURATION_MS

\* Locked again, 8000 ms after the update that lost it.
C33_Witness ==
    /\ entered_locked
    /\ is_some(history.lost_lock)
    /\ history.last_high = history.lost_lock
    /\ engine.last_input - unwrap(history.lost_lock) = STABILITY_DURATION_MS

\* C34: once every update has a scalar below 0.15 and updates keep
\* arriving while the clock advances, the engine reaches Locked, whatever
\* state it was in, and then stays Locked.
C34_CalmLeadsToLocked ==
    /\ is_some(history.calm) ~> engine.state = "Locked"
    /\ [][(is_some(history.calm) /\ engine.state = "Locked")
            => engine'.state = "Locked"]_vars

\* Locked after the scalars settled during a Drift.
C34_Witness ==
    /\ history.calm = Some("Drift")
    /\ engine.state = "Locked"
    /\ prev_state = "Locked"

\* C35: calculate never answers NO_PAIRS.  The result is known exactly when
\* paired_turns() of the window is non-empty, and a window of at least two
\* turns by at least two speakers has an adjacent pair of different speakers.
C35_NoPairsNeverReturned ==
    call.op = "calculate" =>
        /\ call.dc_result.reason # "R016_DC_UNKNOWN_NO_PAIRS"
        /\ DcResult_is_known(call.dc_result) <=> paired_turns(call.window) # <<>>
        /\ (window_len(call.window) >= 2 /\ speaker_count(call.window) >= 2)
             => paired_turns(call.window) # <<>>
        /\ ~DcResult_is_known(call.dc_result) =>
             call.dc_result.reason \in { "R012_DC_UNKNOWN_INSUFFICIENT_TURNS",
                                         "R011_DC_UNKNOWN_SINGLE_SPEAKER" }

\* A known result for a window that opens with two turns of one speaker.
C35_Witness ==
    /\ call.op = "calculate"
    /\ DcResult_is_known(call.dc_result)
    /\ Len(call.window.turns) = 3
    /\ call.window.turns[1].speaker = call.window.turns[2].speaker
    /\ call.window.turns[2].speaker # call.window.turns[3].speaker
    /\ call.dc_result.pair_count = 1

\* The turns of speaker s among the entries of q outside `gone`.
turns_of(q, gone, s) ==
    Cardinality({ i \in (1..Len(q)) \ gone : q[i].speaker = s })

\* C36: starting from an empty window, an add_turn removes at most one
\* entry through the per-speaker cap.  Only the speaker of the appended turn
\* exceeds the cap, by exactly one, so the window grows by at most one entry
\* and the removal by index deletes the marked entry and no other.
C36_CapRemovesAtMostOne ==
    added.count > 0 =>
        LET aged   == aged_out_front(offered, window.window_duration, added.at)
            capped == over_cap(offered, aged)
            marked == aged \cup capped
        IN  /\ Cardinality(capped) <= 1
            /\ \A i \in capped :
                  /\ offered[i].speaker = unwrap(added.turn).speaker
                  /\ turns_of(offered, aged, offered[i].speaker)
                       = MAX_TURNS_PER_SPEAKER + 1
            /\ \A s \in Speakers :
                  s # unwrap(added.turn).speaker
                     => turns_of(offered, aged, s) <= MAX_TURNS_PER_SPEAKER
            /\ Len(window.turns) <= Len(added.before) + 1
            /\ Len(window.turns) = Len(offered) - Cardinality(marked)
            /\ \A i \in (1..Len(offered)) \ marked :
                  \E k \in 1..Len(window.turns) : window.turns[k] = offered[i]

\* The twelfth turn, the eleventh of its speaker: the cap removes that
\* speaker's oldest turn and the other speaker's turn stays.
C36_Witness ==
    /\ added.count = MAX_TURNS_PER_SPEAKER + 2
    /\ Len(added.before) = MAX_TURNS_PER_SPEAKER + 1
    /\ Len(window.turns) = MAX_TURNS_PER_SPEAKER + 1
    /\ added_as(window.turns[1]) = 1
    /\ added_as(window.turns[2]) = 3
    /\ window.turns[1].speaker # window.turns[2].speaker
    /\ over_cap(offered, {}) = { 2 }

\* C37: in HTTP add_turn, whenever the guard of the issuance block holds
\* (output Locked, stable_ms >= 8000, no stored proof, aggregate known),
\* generate succeeds: it returns none of its four denial reasons, a proof
\* is stored, and a handler whose guard does not hold does not call it.
C37_GuardedGenerateSucceeds ==
    session.site = "http" =>
        /\ is_some(session.attempt) =>
              /\ session.attempt = Some("R200_PROOF_GENERATED")
              /\ session.issued
              /\ session.output.state = "Locked"
              /\ session.output.stable_ms >= PROOF_STABLE_MS
              /\ DcResult_is_known(session.dc_result)
              /\ paired_turns(session.window) # <<>>
              /\ is_some(session.last_proof)
        /\ session.issued => is_some(session.attempt)

\* A handler that passed the guard with 8000 ms exactly and stored a proof.
C37_Witness ==
    /\ session.site = "http"
    /\ session.attempt = Some("R200_PROOF_GENERATED")
    /\ session.output.stable_ms = PROOF_STABLE_MS
    /\ session.issued
    /\ is_some(session.last_proof)
    /\ session.proofs = 1

\* C38: every SessionUpdate that add_turn broadcasts with proof_available
\* = true also reports the state Locked; a turn that takes the session out
\* of Locked never broadcasts proof_available = true.
C38_ProofAvailableOnlyWhenLocked ==
    (session.site = "http" /\ is_some(session.broadcast)) =>
        (unwrap(session.broadcast).proof_available
            => unwrap(session.broadcast).state = "Locked")

R005_TRANSITIONS ==
    { "R005_TRANSITION_TO_APPROACHING", "R005_TRANSITION_TO_LOCKED",
      "R005_TRANSITION_TO_DRIFT", "R005_TRANSITION_RECOVERING" }

\* The code of an update that kept the engine in `state` with scalar r.
steady_reason(state, r) ==
    CASE state = "Waiting" -> "R002_STATE_WAITING"
      [] state = "Approaching" ->
            IF f64_lt(r, F(R_THRESHOLD_LOCKED))
            THEN "R003_STABILITY_ACCUMULATING" ELSE "R002_STATE_APPROACHING"
      [] state = "Locked" -> "R002_STATE_LOCKED"
      [] state = "Drift" -> "R002_STATE_DRIFT"

\* C39: the reason code update returns is one of the R005_TRANSITION_*
\* codes if and only if the update changed the engine state; an update that
\* leaves the state unchanged returns R002_STATE_<state> or, in Approaching
\* with scalar < 0.15, R003_STABILITY_ACCUMULATING.
C39_TransitionCodeIffStateChanged ==
    updated =>
        /\ output.reason \in R005_TRANSITIONS <=> engine.state # prev_state
        /\ engine.state = prev_state
              => output.reason = steady_reason(engine.state, output.r)

\* Locked kept by the last update, the timer past 8000 ms.
C39_Witness ==
    /\ updated
    /\ engine.state = "Locked"
    /\ prev_state = "Locked"
    /\ output.reason = "R002_STATE_LOCKED"
    /\ output.stable_ms > STABILITY_DURATION_MS
    /\ engine.update_count = MaxUpdates

\* C40: every successfully issued proof records lock_duration_secs >= 8
\* and paired_turn_count >= 1, for every sustained-duration value that
\* generate accepts.
C40_IssuedProofRecordsEightSeconds ==
    (call.op = "generate" /\ is_some(call.proof)) =>
        /\ \E n \in 8..255 :
              unwrap(call.proof).payload.lock_duration_secs = uint(n, 8)
        /\ \E n \in 1..255 :
              unwrap(call.proof).payload.paired_turn_count = uint(n, 4)

=============================================================================
